---- MODULE Spec2Model ----
(***************************************************************************)
(* Quiz generation and delivery pipeline of QuizGeneratorBot.              *)
(*                                                                         *)
(* The model covers the scheduled path (QuizScheduler._tick polling the    *)
(* "schedules" collection) and the immediate path (the "generate" flow     *)
(* ending in send_now), together with the per-user quota counters kept in  *)
(* the "users" collection and the in-memory session map pending_notes.     *)
(*                                                                         *)
(* Three sequential functions are followed step by step in specifications  *)
(* of their own: the chunked generation loop (SpecLoop), chunk_text        *)
(* (SpecChunk) and generate_questions (SpecClient).                        *)
(*                                                                         *)
(* Time is an integer clock.  One unit is one poll interval; DayLen units  *)
(* make one local day.                                                     *)
(***************************************************************************)
EXTENDS Integers, Sequences, FiniteSets, TLC

(* ------------------------------ bounds -------------------------------- *)
MaxTime == 1          \* the clock runs over 0..MaxTime
DayLen == 1           \* clock units per local day
MaxJobs == 2          \* scheduled jobs ever created in the main specification
QuestionsPerNote == 2 \* the questions_per_note setting of every user
MaxBatch == 1         \* most items one generation call returns
BatchJobs == 11       \* jobs preloaded in the batch specification
MaxNum == 10          \* largest desired question count of the chunked loop
MaxChunks == 3        \* most chunks a file splits into in the chunked loop
MaxReturn == 3        \* most items a call returns in the chunked loop (besides per_chunk)
MaxLen == 4           \* longest text given to chunk_text
MaxChars == 3         \* largest max_chars given to chunk_text
MaxItems == 5         \* most elements of a response array
MaxChoices == 5       \* most choices of a rendered item
MaxSends == 2         \* most items one followed delivery sends
MaxFetches == 2       \* most file uploads one followed session receives

(* ------------------------- program constants -------------------------- *)
BatchLimit == 10      \* .limit(10) of the due-job query
MaxNotesRegular == 1  \* daily cap of the regular tier (the max_notes_regular setting)
CooldownSeconds == 1  \* cooldown between two submissions, in clock units

Users == {"u1"}
Pollers == {"p1", "p2"}
Threads == {"t1", "t2"}
\* The source contents a session can hold: a note (one generation call) or a
\* file whose text splits into two chunks.
Sources == {[kind |-> "note", chunks |-> 0], [kind |-> "file", chunks |-> 2]}
NoTime == -1

VARIABLES
    now,            \* wall clock
    users,          \* users collection: user id -> document
    pending_notes,  \* in-memory session map: user id -> session
    schedules,      \* schedules collection: sequence of job documents, index = _id
    deleted,        \* _ids whose document was deleted by its owner
    pollers,        \* per poller instance: position in _tick and its locals
    runs,           \* per handler thread: position in send_now and its locals
    quizzes,        \* quizzes collection: sequence of persisted quizzes
    jobHist,        \* history, per job: who attempted, claimed, generated and sent
    delivered,      \* history: user -> local day -> deliveries completed that day
    zeroed,         \* history: user -> local days on which the daily reset wrote zero
    fullOn,         \* history: user -> local day on which notes_today last reached the cap
    lastExit,       \* history: how the latest send_now run ended
    chunkLoop,      \* one execution of the chunked generation loop, step by step
    chunker,        \* one execution of chunk_text, step by step
    client,         \* one execution of generate_questions, step by step
    renderer,       \* one text-mode rendering of an item, step by step
    flow,           \* one session dict on its way through the generate dialogue
    settings,       \* one user's plan, key and questions_per_note in the settings menu
    resetter,       \* one execution of reset_notes_if_new_day, step by step
    trigger,        \* the interval trigger of one poller instance and its running ticks
    referrals,      \* users collection as set_referrer sees it, and the calls in progress
    battle          \* one battle document and the players finishing its quiz

\* The variables of the trigger, referral and battle specifications.
moreVars == <<trigger, referrals, battle>>

vars == <<now, users, pending_notes, schedules, deleted, pollers, runs, quizzes, jobHist, delivered, zeroed, fullOn, lastExit, chunkLoop, chunker, client, renderer, flow, settings, resetter, moreVars>>

\* The collections, the session map, the workers and the history variables.
storeVars == <<now, users, pending_notes, schedules, deleted, pollers, runs, quizzes, jobHist, delivered, zeroed, fullOn, lastExit>>

(* ------------------------------ helpers ------------------------------- *)
Min(a, b) == IF a < b THEN a ELSE b
Max(a, b) == IF a > b THEN a ELSE b
Day(t) == t \div DayLen
Take(s, n) == SubSeq(s, 1, Min(n, Len(s)))
Range(s) == {s[i] : i \in 1..Len(s)}

NoSession == [stage |-> "none", kind |-> "none", chunks |-> 0]
IdlePoller == [pc |-> "idle", due |-> <<>>, i |-> 0, questions |-> <<>>, idx |-> 0]
IdleRun == [pc |-> "idle", user |-> "none", kind |-> "none", chunks |-> 0,
            num |-> 0, questions |-> <<>>, idx |-> 0, sent |-> <<>>]
NoHist == [claims |-> 0, claimedBy |-> {}, genBy |-> {}, genRuns |-> 0, genLen |-> -1,
           sends |-> <<>>, orphaned |-> FALSE, sendsAtDelete |-> -1]

Exists(j) == j \in 1..Len(schedules) /\ j \notin deleted

\* One more completed delivery for user u on the current local day.
CountDelivery(u) == [delivered EXCEPT ![u][Day(now)] = @ + 1]

(* ----------------------- generation (external AI) ---------------------- *)
\* The items one generation call returns: the call's chunk index (0 when the
\* source is not chunked) and the item's position in the returned array.
Batch(c, n) == [k \in 1..n |-> [chunk |-> c, pos |-> k]]

\* The chunked loop of the file path: sizes[c] is the number of valid items
\* the call for chunk c returns.  Chunks are visited in order; the loop breaks
\* once num items are collected; the result is cut to num.
RECURSIVE CollectChunks(_, _, _, _)
CollectChunks(sizes, c, num, acc) ==
    IF c > Len(sizes) \/ Len(acc) >= num THEN acc
    ELSE CollectChunks(sizes, c + 1, num, acc \o Batch(c, sizes[c]))

Distribute(sizes, num) == Take(CollectChunks(sizes, 1, num, <<>>), num)

\* Every result the generation step of a request can produce.
GenResults(kind, chunks, num) ==
    IF kind = "file"
    THEN {Distribute(sizes, num) : sizes \in [1..chunks -> 0..MaxBatch]}
    ELSE {Batch(0, n) : n \in 0..MaxBatch}

(* ------------------------------ job store ------------------------------ *)
\* Variant of DueSet whose query has no scheduled_at condition.
DueSet_IgnoresTime(t) == {j \in 1..Len(schedules) :
                 /\ j \notin deleted
                 /\ schedules[j].status = "pending"}

DueSet(t) == {j \in 1..Len(schedules) :
                 /\ j \notin deleted
                 /\ schedules[j].status = "pending"
                 /\ schedules[j].scheduled_at <= t}

\* Ascending scheduled_at; equal instants in insertion (_id) order.
Earliest(S) == CHOOSE j \in S : \A k \in S :
                   \/ schedules[j].scheduled_at < schedules[k].scheduled_at
                   \/ schedules[j].scheduled_at = schedules[k].scheduled_at /\ j <= k

RECURSIVE SortByScheduledAt(_)
SortByScheduledAt(S) ==
    IF S = {} THEN <<>>
    ELSE LET j == Earliest(S) IN <<j>> \o SortByScheduledAt(S \ {j})

\* Variant of FindDue without the limit.
FindDue_NoLimit(t) == SortByScheduledAt(DueSet(t))

\* find(...).sort("scheduled_at", 1).limit(10)
FindDue(t) == Take(SortByScheduledAt(DueSet(t)), BatchLimit)

\* Variant of SetStatus that writes the status of a deleted document too.
SetStatus_Upsert(j, st) == [schedules EXCEPT ![j].status = st]

\* update_one({"_id": j}, {"$set": {"status": st}}): no effect on a deleted document.
SetStatus(j, st) ==
    IF Exists(j) THEN [schedules EXCEPT ![j].status = st] ELSE schedules

(* ------------------------------- poller -------------------------------- *)
CurJob(p) == pollers[p].due[pollers[p].i]

\* Variant of NextItem that walks the list from its end.
NextItem_Reversed(questions, idx) == questions[Len(questions) - idx + 1]

\* for idx, q in enumerate(questions, start=1): the item of iteration idx.
NextItem(questions, idx) == questions[idx]

\* _tick, lines 27-29: read the clock and fetch the due batch.
Tick(p) ==
    /\ pollers[p].pc = "idle"
    /\ LET due == FindDue(now) IN
         /\ due # <<>>
         /\ pollers' = [pollers EXCEPT ![p] = [IdlePoller EXCEPT !.pc = "claim", !.due = due, !.i = 1]]
    /\ UNCHANGED <<now, users, pending_notes, schedules, deleted, runs, quizzes, jobHist, delivered, zeroed, fullOn, lastExit, chunkLoop, chunker, client, renderer, flow, settings, resetter, moreVars>>

\* Variant of ClaimUpdate whose filter names the _id only.
ClaimUpdate_Unconditional(j) ==
    IF Exists(j)
    THEN [modified |-> 1, schedules |-> [schedules EXCEPT ![j].status = "processing"]]
    ELSE [modified |-> 0, schedules |-> schedules]

\* Variant of ClaimUpdate that also takes over a job found in processing.
ClaimUpdate_Reclaim(j) ==
    IF Exists(j) /\ schedules[j].status \in {"pending", "processing"}
    THEN [modified |-> 1, schedules |-> [schedules EXCEPT ![j].status = "processing"]]
    ELSE [modified |-> 0, schedules |-> schedules]

\* The conditional update of line 32, applied by the database as one step.
ClaimUpdate(j) ==
    IF Exists(j) /\ schedules[j].status = "pending"
    THEN [modified |-> 1, schedules |-> [schedules EXCEPT ![j].status = "processing"]]
    ELSE [modified |-> 0, schedules |-> schedules]

\* Variant of NextInBatch that stays on the same element of the batch.
NextInBatch_Stay(q) == [q EXCEPT !.pc = "claim", !.questions = <<>>, !.idx = 0]

\* The position after one iteration of the for loop over the batch.
NextInBatch(q) ==
    IF q.i < Len(q.due)
    THEN [q EXCEPT !.pc = "claim", !.i = q.i + 1, !.questions = <<>>, !.idx = 0]
    ELSE IdlePoller

\* Variant of Claim that goes on to execute the job whatever modified_count says.
Claim_IgnoresResult(p) ==
    /\ pollers[p].pc = "claim"
    /\ LET j == CurJob(p)
           res == ClaimUpdate(j) IN
         /\ schedules' = res.schedules
         /\ pollers' = [pollers EXCEPT ![p].pc = "gen"]
         /\ jobHist' = IF res.modified = 0 THEN jobHist
                       ELSE [jobHist EXCEPT ![j].claims = @ + 1,
                                            ![j].claimedBy = @ \cup {p}]
    /\ UNCHANGED <<now, users, pending_notes, deleted, runs, quizzes, delivered, zeroed, fullOn, lastExit, chunkLoop, chunker, client, renderer, flow, settings, resetter, moreVars>>

\* _tick, lines 30-34: one claim attempt.
Claim(p) ==
    /\ pollers[p].pc = "claim"
    /\ LET j == CurJob(p)
           res == ClaimUpdate(j) IN
         /\ schedules' = res.schedules
         /\ IF res.modified = 0
            THEN /\ pollers' = [pollers EXCEPT ![p] = NextInBatch(pollers[p])]
                 /\ jobHist' = jobHist
            ELSE /\ pollers' = [pollers EXCEPT ![p].pc = "gen"]
                 /\ jobHist' = [jobHist EXCEPT ![j].claims = @ + 1,
                                               ![j].claimedBy = @ \cup {p}]
    /\ UNCHANGED <<now, users, pending_notes, deleted, runs, quizzes, delivered, zeroed, fullOn, lastExit, chunkLoop, chunker, client, renderer, flow, settings, resetter, moreVars>>

\* Variant of Generate that lets an empty result fall through to the final
\* status write.
Generate_EmptyMarksSent(p) ==
    /\ pollers[p].pc = "gen"
    /\ LET j == CurJob(p)
           job == schedules[j] IN
       \E qs \in GenResults(job.kind, job.chunks, job.num) :
         /\ jobHist' = [jobHist EXCEPT ![j].genBy = @ \cup {p}, ![j].genRuns = @ + 1,
                                      ![j].genLen = Len(qs)]
         /\ schedules' = schedules
         /\ pollers' = [pollers EXCEPT ![p].pc = "send", ![p].questions = qs, ![p].idx = 1]
    /\ UNCHANGED <<now, users, pending_notes, deleted, runs, quizzes, delivered, zeroed, fullOn, lastExit, chunkLoop, chunker, client, renderer, flow, settings, resetter, moreVars>>

\* _tick, lines 36-62: the generation step of a claimed job and the
\* empty-result check that follows it.
Generate(p) ==
    /\ pollers[p].pc = "gen"
    /\ LET j == CurJob(p)
           job == schedules[j] IN
       \E qs \in GenResults(job.kind, job.chunks, job.num) :
         /\ jobHist' = [jobHist EXCEPT ![j].genBy = @ \cup {p}, ![j].genRuns = @ + 1,
                                      ![j].genLen = Len(qs)]
         /\ IF qs = <<>>
            THEN /\ schedules' = SetStatus(j, "failed")
                 /\ pollers' = [pollers EXCEPT ![p] = NextInBatch(pollers[p])]
            ELSE /\ schedules' = schedules
                 /\ pollers' = [pollers EXCEPT ![p].pc = "send", ![p].questions = qs, ![p].idx = 1]
    /\ UNCHANGED <<now, users, pending_notes, deleted, runs, quizzes, delivered, zeroed, fullOn, lastExit, chunkLoop, chunker, client, renderer, flow, settings, resetter, moreVars>>

\* _tick, lines 65-85: the pacing wait and the send of one item.
SendItem(p) ==
    /\ pollers[p].pc = "send"
    /\ pollers[p].idx <= Len(pollers[p].questions)
    /\ LET j == CurJob(p) IN
         jobHist' = [jobHist EXCEPT ![j].sends = Append(@, [by |-> p, item |-> NextItem(pollers[p].questions, pollers[p].idx)])]
    /\ pollers' = [pollers EXCEPT ![p].idx = @ + 1]
    /\ UNCHANGED <<now, users, pending_notes, schedules, deleted, runs, quizzes, delivered, zeroed, fullOn, lastExit, chunkLoop, chunker, client, renderer, flow, settings, resetter, moreVars>>

\* _tick, lines 87-92: all items sent; the final status write.
MarkSent(p) ==
    /\ pollers[p].pc = "send"
    /\ pollers[p].idx > Len(pollers[p].questions)
    /\ schedules' = SetStatus(CurJob(p), "sent")
    /\ pollers' = [pollers EXCEPT ![p] = NextInBatch(pollers[p])]
    /\ delivered' = IF Exists(CurJob(p)) THEN CountDelivery(schedules[CurJob(p)].user_id)
                     ELSE delivered
    /\ UNCHANGED <<now, users, pending_notes, deleted, runs, quizzes, jobHist, zeroed, fullOn, lastExit, chunkLoop, chunker, client, renderer, flow, settings, resetter, moreVars>>

\* An exception raised inside the try block (lines 35-92): by the generation
\* step, by rendering an item or by the send.
Raise(p) ==
    /\ \/ pollers[p].pc = "gen"
       \/ pollers[p].pc = "send" /\ pollers[p].idx <= Len(pollers[p].questions)
    /\ pollers' = [pollers EXCEPT ![p].pc = "except"]
    /\ UNCHANGED <<now, users, pending_notes, schedules, deleted, runs, quizzes, jobHist, delivered, zeroed, fullOn, lastExit, chunkLoop, chunker, client, renderer, flow, settings, resetter, moreVars>>

\* Variant of HandleException that puts the job back in the queue for a retry.
HandleException_Requeue(p) ==
    /\ pollers[p].pc = "except"
    /\ schedules' = SetStatus(CurJob(p), "pending")
    /\ pollers' = [pollers EXCEPT ![p] = NextInBatch(pollers[p])]
    /\ UNCHANGED <<now, users, pending_notes, deleted, runs, quizzes, jobHist, delivered, zeroed, fullOn, lastExit, chunkLoop, chunker, client, renderer, flow, settings, resetter, moreVars>>

\* Variant of HandleException in which the exception ends the tick.
HandleException_Abort(p) ==
    /\ pollers[p].pc = "except"
    /\ schedules' = SetStatus(CurJob(p), "failed")
    /\ pollers' = [pollers EXCEPT ![p] = IdlePoller]
    /\ UNCHANGED <<now, users, pending_notes, deleted, runs, quizzes, jobHist, delivered, zeroed, fullOn, lastExit, chunkLoop, chunker, client, renderer, flow, settings, resetter, moreVars>>

\* _tick, lines 93-94: the except clause.
HandleException(p) ==
    /\ pollers[p].pc = "except"
    /\ schedules' = SetStatus(CurJob(p), "failed")
    /\ pollers' = [pollers EXCEPT ![p] = NextInBatch(pollers[p])]
    /\ UNCHANGED <<now, users, pending_notes, deleted, runs, quizzes, jobHist, delivered, zeroed, fullOn, lastExit, chunkLoop, chunker, client, renderer, flow, settings, resetter, moreVars>>

\* The worker's process stops in the middle of a tick; a restarted process
\* starts with no locals and waits for its next interval.
Crash(p) ==
    /\ pollers[p].pc \in {"claim", "gen", "send", "except"}
    /\ pollers' = [pollers EXCEPT ![p] = IdlePoller]
    /\ jobHist' = IF pollers[p].pc = "claim" THEN jobHist
               ELSE [jobHist EXCEPT ![CurJob(p)].orphaned = TRUE]
    /\ UNCHANGED <<now, users, pending_notes, schedules, deleted, runs, quizzes, delivered, zeroed, fullOn, lastExit, chunkLoop, chunker, client, renderer, flow, settings, resetter, moreVars>>

(* ----------------------------- quota gate ------------------------------ *)
\* Daily cap of the user's tier.
DailyCap(u) == MaxNotesRegular

has_quota(u) == users[u].notes_today < DailyCap(u)

can_submit_note_now(u) ==
    \/ users[u].last_note_time = NoTime
    \/ now - users[u].last_note_time >= CooldownSeconds

\* The test of reset_notes_if_new_day: a stored last_note_time whose local
\* date differs from today's.
IsNewDay(u) ==
    /\ users[u].last_note_time # NoTime
    /\ Day(users[u].last_note_time) # Day(now)

\* UsersRepository.reset_notes_if_new_day: the users collection afterwards.
reset_notes_if_new_day(u) ==
    IF IsNewDay(u) THEN [users EXCEPT ![u].notes_today = 0] ELSE users

update_last_note_time(us, u) == [us EXCEPT ![u].last_note_time = now]
increment_quota(us, u) == [us EXCEPT ![u].notes_today = @ + 1]
increase_total_notes(us, u) == [us EXCEPT ![u].total_notes = @ + 1]

(* ------------------------- the generate dialogue ----------------------- *)
\* handle_generate: lazy daily reset, subscription and quota checks, new session.
handle_generate(u) ==
    /\ users' = reset_notes_if_new_day(u)
    /\ zeroed' = IF IsNewDay(u) THEN [zeroed EXCEPT ![u] = @ \cup {Day(now)}] ELSE zeroed
    /\ \E subscribed \in BOOLEAN :
         pending_notes' =
            IF subscribed /\ users'[u].notes_today < DailyCap(u)
            THEN [pending_notes EXCEPT ![u] = [NoSession EXCEPT !.stage = "await_input_type"]]
            ELSE pending_notes
    /\ UNCHANGED <<now, schedules, deleted, pollers, runs, quizzes, jobHist, delivered, fullOn, lastExit, chunkLoop, chunker, client, renderer, flow, settings, resetter, moreVars>>

\* The input, difficulty, destination and delay steps of the dialogue: the
\* session receives its source content and ends at the send-or-schedule choice.
SubmitInput(u) ==
    /\ pending_notes[u].stage = "await_input_type"
    /\ \E src \in Sources :
         pending_notes' = [pending_notes EXCEPT ![u] =
             [stage |-> "confirm_send_or_schedule", kind |-> src.kind, chunks |-> src.chunks]]
    /\ UNCHANGED <<now, users, schedules, deleted, pollers, runs, quizzes, jobHist, delivered, zeroed, fullOn, lastExit, chunkLoop, chunker, client, renderer, flow, settings, resetter, moreVars>>

\* handle_home: the session is dropped.
handle_home(u) ==
    /\ pending_notes[u] # NoSession
    /\ pending_notes' = [pending_notes EXCEPT ![u] = NoSession]
    /\ UNCHANGED <<now, users, schedules, deleted, pollers, runs, quizzes, jobHist, delivered, zeroed, fullOn, lastExit, chunkLoop, chunker, client, renderer, flow, settings, resetter, moreVars>>

\* do_schedule: any live session moves to the schedule-time prompt.
do_schedule(u) ==
    /\ pending_notes[u] # NoSession
    /\ pending_notes[u].stage # "await_schedule_time"
    /\ pending_notes' = [pending_notes EXCEPT ![u].stage = "await_schedule_time"]
    /\ UNCHANGED <<now, users, schedules, deleted, pollers, runs, quizzes, jobHist, delivered, zeroed, fullOn, lastExit, chunkLoop, chunker, client, renderer, flow, settings, resetter, moreVars>>

\* handle_schedule_time with a well-formed time t: the job is stored pending.
handle_schedule_time(u, t) ==
    /\ pending_notes[u].stage = "await_schedule_time"
    /\ Len(schedules) < MaxJobs
    /\ schedules' = Append(schedules,
           [user_id |-> u, kind |-> pending_notes[u].kind, chunks |-> pending_notes[u].chunks,
            num |-> users[u].questions_per_note, scheduled_at |-> t, status |-> "pending"])
    /\ jobHist' = Append(jobHist, NoHist)
    /\ pending_notes' = [pending_notes EXCEPT ![u] = NoSession]
    /\ UNCHANGED <<now, users, deleted, pollers, runs, quizzes, delivered, zeroed, fullOn, lastExit, chunkLoop, chunker, client, renderer, flow, settings, resetter, moreVars>>

\* handle_delete_schedule: the owner deletes one of their job documents.
handle_delete_schedule(u, j) ==
    /\ Exists(j)
    /\ schedules[j].user_id = u
    /\ deleted' = deleted \cup {j}
    /\ jobHist' = [jobHist EXCEPT ![j].sendsAtDelete = Len(jobHist[j].sends)]
    /\ UNCHANGED <<now, users, pending_notes, schedules, pollers, runs, quizzes, delivered, zeroed, fullOn, lastExit, chunkLoop, chunker, client, renderer, flow, settings, resetter, moreVars>>

(* --------------------------- immediate path ---------------------------- *)
\* Variant of PopSession that leaves the session in place.
PopSession_Keep(u) == pending_notes

\* What the finally clause of send_now leaves: the session popped, the thread free.
PopSession(u) == [pending_notes EXCEPT ![u] = NoSession]

\* send_now, lines 1436-1467: session lookup, quota check, timestamp update.
send_now(t, u) ==
    /\ runs[t].pc = "idle"
    /\ pending_notes[u] # NoSession
    /\ has_quota(u)
    /\ users' = update_last_note_time(users, u)
    /\ runs' = [runs EXCEPT ![t] = [IdleRun EXCEPT !.pc = "gen", !.user = u,
                    !.kind = pending_notes[u].kind, !.chunks = pending_notes[u].chunks,
                    !.num = users[u].questions_per_note]]
    /\ UNCHANGED <<now, pending_notes, schedules, deleted, pollers, quizzes, jobHist, delivered, zeroed, fullOn, lastExit, chunkLoop, chunker, client, renderer, flow, settings, resetter, moreVars>>

\* send_now, lines 1468-1505: the generation step and the empty-result exit.
RunGenerate(t) ==
    /\ runs[t].pc = "gen"
    /\ \E qs \in GenResults(runs[t].kind, runs[t].chunks, runs[t].num) :
         IF qs = <<>>
         THEN /\ runs' = [runs EXCEPT ![t] = IdleRun]
              /\ pending_notes' = PopSession(runs[t].user)
              /\ lastExit' = [how |-> "empty", sent |-> 0]
         ELSE /\ runs' = [runs EXCEPT ![t].pc = "send", ![t].questions = qs, ![t].idx = 1]
              /\ pending_notes' = pending_notes
              /\ lastExit' = lastExit
    /\ UNCHANGED <<now, users, schedules, deleted, pollers, quizzes, jobHist, delivered, zeroed, fullOn, chunkLoop, chunker, client, renderer, flow, settings, resetter, moreVars>>

\* send_now, lines 1507-1533: the pacing wait and the send of one item.
RunSendItem(t) ==
    /\ runs[t].pc = "send"
    /\ runs[t].idx <= Len(runs[t].questions)
    /\ runs' = [runs EXCEPT ![t].idx = @ + 1,
                            ![t].sent = Append(@, NextItem(runs[t].questions, runs[t].idx))]
    /\ UNCHANGED <<now, users, pending_notes, schedules, deleted, pollers, quizzes, jobHist, delivered, zeroed, fullOn, lastExit, chunkLoop, chunker, client, renderer, flow, settings, resetter, moreVars>>

\* send_now, lines 1541-1588: counters, the persisted Quiz, then the finally clause.
RunFinish(t) ==
    /\ runs[t].pc = "send"
    /\ runs[t].idx > Len(runs[t].questions)
    /\ LET u == runs[t].user IN
         /\ users' = increase_total_notes(increment_quota(users, u), u)
         /\ quizzes' = Append(quizzes, [user_id |-> u, questions |-> runs[t].questions])
         /\ delivered' = CountDelivery(u)
         /\ fullOn' = IF users[u].notes_today + 1 = DailyCap(u)
                       THEN [fullOn EXCEPT ![u] = Day(now)] ELSE fullOn
         /\ pending_notes' = PopSession(u)
    /\ runs' = [runs EXCEPT ![t] = IdleRun]
    /\ lastExit' = [how |-> "finish", sent |-> Len(runs[t].questions)]
    /\ UNCHANGED <<now, schedules, deleted, pollers, jobHist, zeroed, chunkLoop, chunker, client, renderer, flow, settings, resetter, moreVars>>

\* send_now, lines 1585-1588: an exception in generation, rendering or send.
RunRaise(t) ==
    /\ \/ runs[t].pc = "gen"
       \/ runs[t].pc = "send" /\ runs[t].idx <= Len(runs[t].questions)
    /\ runs' = [runs EXCEPT ![t] = IdleRun]
    /\ pending_notes' = PopSession(runs[t].user)
    /\ lastExit' = [how |-> "raise", sent |-> IF runs[t].pc = "gen" THEN 0 ELSE runs[t].idx - 1]
    /\ UNCHANGED <<now, users, schedules, deleted, pollers, quizzes, jobHist, delivered, zeroed, fullOn, chunkLoop, chunker, client, renderer, flow, settings, resetter, moreVars>>

(* -------------------------------- clock -------------------------------- *)
AdvanceClock ==
    /\ now < MaxTime
    /\ now' = now + 1
    /\ UNCHANGED <<users, pending_notes, schedules, deleted, pollers, runs, quizzes, jobHist, delivered, zeroed, fullOn, lastExit, chunkLoop, chunker, client, renderer, flow, settings, resetter, moreVars>>

(* --------------------------- specification ----------------------------- *)
\* No execution of the chunked loop, of chunk_text or of generate_questions
\* is being followed step by step.
NoCall ==
    /\ chunkLoop = [pc |-> "idle"]
    /\ chunker = [pc |-> "idle"]
    /\ client = [pc |-> "idle"]
    /\ renderer = [pc |-> "idle"]
    /\ flow = [pc |-> "idle"]
    /\ settings = [pc |-> "idle"]
    /\ resetter = [pc |-> "idle"]
    /\ trigger = [pc |-> "idle"]
    /\ referrals = [pc |-> "idle"]
    /\ battle = [pc |-> "idle"]

\* The state after construction: empty collections, idle workers.
StoreInit ==
    /\ now = 0
    /\ users \in [Users -> [notes_today : {0}, total_notes : {0}, last_note_time : {NoTime},
                            questions_per_note : {QuestionsPerNote}]]
    /\ pending_notes = [u \in Users |-> NoSession]
    /\ schedules = <<>>
    /\ deleted = {}
    /\ pollers = [p \in Pollers |-> IdlePoller]
    /\ runs = [t \in Threads |-> IdleRun]
    /\ quizzes = <<>>
    /\ jobHist = <<>>
    /\ delivered = [u \in Users |-> [d \in 0..Day(MaxTime) |-> 0]]
    /\ zeroed = [u \in Users |-> {}]
    /\ fullOn = [u \in Users |-> NoTime]
    /\ lastExit = [how |-> "none", sent |-> 0]

Init == StoreInit /\ NoCall

\* The dialogue that ends in a send-or-schedule choice.
Dialogue ==
    \/ \E u \in Users : handle_generate(u)
    \/ \E u \in Users : SubmitInput(u)
    \/ \E u \in Users : handle_home(u)

\* Scheduled path: the dialogue, the job store and the poller instances.
NextSched ==
    \/ AdvanceClock
    \/ Dialogue
    \/ \E u \in Users : do_schedule(u)
    \/ \E u \in Users, t \in 0..MaxTime : handle_schedule_time(u, t)
    \/ \E p \in Pollers : Tick(p)
    \/ \E p \in Pollers : Claim(p)
    \/ \E p \in Pollers : Generate(p)
    \/ \E p \in Pollers : SendItem(p)
    \/ \E p \in Pollers : MarkSent(p)
    \/ \E p \in Pollers : Raise(p)
    \/ \E p \in Pollers : HandleException(p)
    \/ \E p \in Pollers : Crash(p)

SpecSched == Init /\ [][NextSched]_vars

\* Immediate path: the dialogue and the handler threads running send_now.
NextNow ==
    \/ AdvanceClock
    \/ Dialogue
    \/ \E t \in Threads, u \in Users : send_now(t, u)
    \/ \E t \in Threads : RunGenerate(t)
    \/ \E t \in Threads : RunSendItem(t)
    \/ \E t \in Threads : RunFinish(t)
    \/ \E t \in Threads : RunRaise(t)

SpecNow == Init /\ [][NextNow]_vars

\* Batch specification: the job store already holds BatchJobs pending note
\* jobs of one user, due at alternating instants, more than one tick fetches.
BatchJob(k) == [user_id |-> CHOOSE u \in Users : TRUE, kind |-> "note", chunks |-> 0,
                num |-> QuestionsPerNote, scheduled_at |-> k % (MaxTime + 1),
                status |-> "pending"]

InitBatch ==
    /\ now = 0
    /\ users \in [Users -> [notes_today : {0}, total_notes : {0}, last_note_time : {NoTime},
                            questions_per_note : {QuestionsPerNote}]]
    /\ pending_notes = [u \in Users |-> NoSession]
    /\ schedules = [k \in 1..BatchJobs |-> BatchJob(k)]
    /\ deleted = {}
    /\ pollers = [p \in Pollers |-> IdlePoller]
    /\ runs = [t \in Threads |-> IdleRun]
    /\ quizzes = <<>>
    /\ jobHist = [k \in 1..BatchJobs |-> NoHist]
    /\ delivered = [u \in Users |-> [d \in 0..Day(MaxTime) |-> 0]]
    /\ zeroed = [u \in Users |-> {}]
    /\ fullOn = [u \in Users |-> NoTime]
    /\ lastExit = [how |-> "none", sent |-> 0]
    /\ NoCall

\* One poller instance works through the backlog, tick after tick.
BatchPoller == CHOOSE p \in Pollers : TRUE

NextBatch ==
    \/ AdvanceClock
    \/ Tick(BatchPoller)
    \/ Claim(BatchPoller)
    \/ Generate(BatchPoller)
    \/ SendItem(BatchPoller)
    \/ MarkSent(BatchPoller)

SpecBatch == InitBatch /\ [][NextBatch]_vars

\* The steps inside a tick, after the query.
BatchPollerStep ==
    \/ Claim(BatchPoller)
    \/ Generate(BatchPoller)
    \/ SendItem(BatchPoller)
    \/ MarkSent(BatchPoller)

\* A firing of the interval trigger would start a tick that finds work: the
\* instance is idle and the query of line 29 has a match.
TickReady == pollers[BatchPoller].pc = "idle" /\ DueSet(now) # {}

\* Inside a tick every database call, generation call, pacing wait and send
\* returns (weak fairness of the steps after the query), and the interval
\* trigger keeps firing _tick (weak fairness of Tick, with its enabling
\* condition TickReady written out).
SpecBatchLive ==
    /\ SpecBatch
    /\ WF_vars(BatchPollerStep)
    /\ ([]<>(~TickReady) \/ []<><<Tick(BatchPoller)>>_vars)

\* Delivery specification: one user holds a live session over a two-chunk file
\* and a pending job over the same file; a poller instance executes the job
\* and the handler threads run send_now, with any generation step or send
\* free to raise.
DeliverUser == CHOOSE u \in Users : TRUE

InitDeliver ==
    /\ now = 0
    /\ users \in [Users -> [notes_today : {0}, total_notes : {0}, last_note_time : {NoTime},
                            questions_per_note : {QuestionsPerNote}]]
    /\ pending_notes = [u \in Users |->
           IF u = DeliverUser
           THEN [stage |-> "confirm_send_or_schedule", kind |-> "file", chunks |-> 2]
           ELSE NoSession]
    /\ schedules = <<[user_id |-> DeliverUser, kind |-> "file", chunks |-> 2,
                      num |-> QuestionsPerNote, scheduled_at |-> 0, status |-> "pending"]>>
    /\ deleted = {}
    /\ pollers = [p \in Pollers |-> IdlePoller]
    /\ runs = [t \in Threads |-> IdleRun]
    /\ quizzes = <<>>
    /\ jobHist = <<NoHist>>
    /\ delivered = [u \in Users |-> [d \in 0..Day(MaxTime) |-> 0]]
    /\ zeroed = [u \in Users |-> {}]
    /\ fullOn = [u \in Users |-> NoTime]
    /\ lastExit = [how |-> "none", sent |-> 0]
    /\ NoCall

NextDeliver ==
    \/ AdvanceClock
    \/ Tick(BatchPoller)
    \/ Claim(BatchPoller)
    \/ Generate(BatchPoller)
    \/ SendItem(BatchPoller)
    \/ MarkSent(BatchPoller)
    \/ Raise(BatchPoller)
    \/ HandleException(BatchPoller)
    \/ \E t \in Threads : send_now(t, DeliverUser)
    \/ \E t \in Threads : RunGenerate(t)
    \/ \E t \in Threads : RunSendItem(t)
    \/ \E t \in Threads : RunFinish(t)
    \/ \E t \in Threads : RunRaise(t)

SpecDeliver == InitDeliver /\ [][NextDeliver]_vars

\* Deletion specification: the dialogue stores jobs, one poller instance
\* executes them and the owner deletes job records at any moment.
NextDelete ==
    \/ AdvanceClock
    \/ Dialogue
    \/ \E u \in Users : do_schedule(u)
    \/ \E u \in Users, t \in 0..MaxTime : handle_schedule_time(u, t)
    \/ \E u \in Users, j \in 1..MaxJobs : handle_delete_schedule(u, j)
    \/ Tick(BatchPoller)
    \/ Claim(BatchPoller)
    \/ Generate(BatchPoller)
    \/ SendItem(BatchPoller)
    \/ MarkSent(BatchPoller)
    \/ Raise(BatchPoller)
    \/ HandleException(BatchPoller)

SpecDelete == Init /\ [][NextDelete]_vars

(* ------------------------- the chunked loop ---------------------------- *)
\* The file path of send_now and of _tick, one loop iteration per step.
\* chunkLoop.calls records every generate_questions call: the chunk it was
\* made for, the count asked for and the number of items it returned.

\* Variant of per_chunk that rounds the share up.
per_chunk_Ceil(num, n) == Max(1, (num + Max(1, n) - 1) \div Max(1, n))

per_chunk(num, n) == Max(1, num \div Max(1, n))

\* Variant of TargetMet that stops only on an exact hit.
TargetMet_Exact(qs, num) == Len(qs) = num

\* The break test at the head of each iteration.
TargetMet(qs, num) == Len(qs) >= num

\* What a call asked for n items may return: generate_questions does not cut
\* its result to the count asked for.
Returns(n) == (0..MaxReturn) \cup {n}

InitLoop ==
    /\ StoreInit
    /\ chunker = [pc |-> "idle"]
    /\ client = [pc |-> "idle"]
    /\ renderer = [pc |-> "idle"]
    /\ flow = [pc |-> "idle"]
    /\ settings = [pc |-> "idle"]
    /\ resetter = [pc |-> "idle"]
    /\ trigger = [pc |-> "idle"]
    /\ referrals = [pc |-> "idle"]
    /\ battle = [pc |-> "idle"]
    /\ \E num \in 1..MaxNum, n \in 0..MaxChunks :
         chunkLoop = [pc |-> "loop", num |-> num, chunks |-> n,
                      per_chunk |-> per_chunk(num, n), idx |-> 1,
                      questions |-> <<>>, calls |-> <<>>, result |-> <<>>]

\* One iteration that passes the break test: the call for the next chunk.
LoopCall ==
    /\ chunkLoop.pc = "loop"
    /\ chunkLoop.idx <= chunkLoop.chunks
    /\ ~TargetMet(chunkLoop.questions, chunkLoop.num)
    /\ \E got \in Returns(chunkLoop.per_chunk) :
         chunkLoop' = [chunkLoop EXCEPT
             !.questions = @ \o Batch(chunkLoop.idx, got),
             !.calls = Append(@, [chunk |-> chunkLoop.idx,
                                  asked |-> chunkLoop.per_chunk, got |-> got]),
             !.idx = @ + 1]
    /\ UNCHANGED <<storeVars, chunker, client, renderer, flow, settings, resetter, moreVars>>

\* Variant of LoopExit that returns everything collected.
LoopExit_NoCut ==
    /\ chunkLoop.pc = "loop"
    /\ \/ chunkLoop.idx > chunkLoop.chunks
       \/ TargetMet(chunkLoop.questions, chunkLoop.num)
    /\ chunkLoop' = [chunkLoop EXCEPT !.pc = "done", !.result = chunkLoop.questions]
    /\ UNCHANGED <<storeVars, chunker, client, renderer, flow, settings, resetter, moreVars>>

\* The loop ends, by exhaustion or by break, and the result is cut to num.
LoopExit ==
    /\ chunkLoop.pc = "loop"
    /\ \/ chunkLoop.idx > chunkLoop.chunks
       \/ TargetMet(chunkLoop.questions, chunkLoop.num)
    /\ chunkLoop' = [chunkLoop EXCEPT !.pc = "done",
                        !.result = Take(chunkLoop.questions, chunkLoop.num)]
    /\ UNCHANGED <<storeVars, chunker, client, renderer, flow, settings, resetter, moreVars>>

NextLoop == LoopCall \/ LoopExit

SpecLoop == InitLoop /\ [][NextLoop]_vars


(* ------------------------------ chunk_text ----------------------------- *)
\* Texts are sequences of characters; one of the characters is whitespace.
Chars == {"a", "b", " "}
Whitespace == {" "}
Texts == UNION {[1..n -> Chars] : n \in 0..MaxLen}

\* str.strip(): leading and trailing whitespace removed.
RECURSIVE lstrip(_)
lstrip(s) == IF s # <<>> /\ Head(s) \in Whitespace THEN lstrip(Tail(s)) ELSE s

RECURSIVE rstrip(_)
rstrip(s) ==
    IF s # <<>> /\ s[Len(s)] \in Whitespace THEN rstrip(SubSeq(s, 1, Len(s) - 1)) ELSE s

strip(s) == rstrip(lstrip(s))

\* Variant of SliceTo that takes one character more.
SliceTo_OneMore(buf, n) == SubSeq(buf, 1, Min(n + 1, Len(buf)))

\* buf[:n]
SliceTo(buf, n) == SubSeq(buf, 1, Min(n, Len(buf)))

\* Variant of SliceFrom that drops one character more.
SliceFrom_SkipOne(buf, n) == SubSeq(buf, Min(n + 1, Len(buf)) + 1, Len(buf))

\* buf[n:]
SliceFrom(buf, n) == SubSeq(buf, Min(n, Len(buf)) + 1, Len(buf))

InitChunk ==
    /\ StoreInit
    /\ chunkLoop = [pc |-> "idle"]
    /\ client = [pc |-> "idle"]
    /\ renderer = [pc |-> "idle"]
    /\ flow = [pc |-> "idle"]
    /\ settings = [pc |-> "idle"]
    /\ resetter = [pc |-> "idle"]
    /\ trigger = [pc |-> "idle"]
    /\ referrals = [pc |-> "idle"]
    /\ battle = [pc |-> "idle"]
    /\ \E text \in Texts, max_chars \in 1..MaxChars :
         chunker = [pc |-> "strip", text |-> text, max_chars |-> max_chars,
                    buf |-> <<>>, chunks |-> <<>>]

\* chunk_text, lines 55-56: the empty list and the stripped buffer.
ChunkStrip ==
    /\ chunker.pc = "strip"
    /\ chunker' = [chunker EXCEPT !.pc = "loop", !.buf = strip(chunker.text)]
    /\ UNCHANGED <<storeVars, chunkLoop, client, renderer, flow, settings, resetter, moreVars>>

\* chunk_text, lines 57-59: one iteration of the while loop.
ChunkSlice ==
    /\ chunker.pc = "loop"
    /\ chunker.buf # <<>>
    /\ chunker' = [chunker EXCEPT
           !.chunks = Append(@, SliceTo(chunker.buf, chunker.max_chars)),
           !.buf = SliceFrom(chunker.buf, chunker.max_chars)]
    /\ UNCHANGED <<storeVars, chunkLoop, client, renderer, flow, settings, resetter, moreVars>>

\* chunk_text, line 60: the buffer is empty and the list is returned.
ChunkReturn ==
    /\ chunker.pc = "loop"
    /\ chunker.buf = <<>>
    /\ chunker' = [chunker EXCEPT !.pc = "done"]
    /\ UNCHANGED <<storeVars, chunkLoop, client, renderer, flow, settings, resetter, moreVars>>

NextChunk == ChunkStrip \/ ChunkSlice \/ ChunkReturn

SpecChunk == InitChunk /\ [][NextChunk]_vars

\* A call of chunk_text that has started keeps executing.
SpecChunkLive == SpecChunk /\ WF_vars(NextChunk)


(* -------------------------- generate_questions ------------------------- *)
\* The keys every returned question object must hold.
RequiredKeys == {"question", "choices", "answer_index", "explanation"}

\* The shapes an element of the response array can have: an object with the
\* four keys, one with a further key, one lacking a key, a non-object, and an
\* object with the four keys whose answer_index points past its choices.
\* choices is the number of choices the element lists.
Shapes == {[obj |-> TRUE, keys |-> RequiredKeys, choices |-> 4, answer_index |-> 2],
           [obj |-> TRUE, keys |-> RequiredKeys \cup {"hint"}, choices |-> 4, answer_index |-> 0],
           [obj |-> TRUE, keys |-> RequiredKeys \ {"explanation"}, choices |-> 4, answer_index |-> 1],
           [obj |-> FALSE, keys |-> {}, choices |-> 0, answer_index |-> 0],
           [obj |-> TRUE, keys |-> RequiredKeys, choices |-> 4, answer_index |-> 4]}

\* The arrays a response can hold; id is the element's position and stands
\* for its content.
Arrays == UNION {{[i \in 1..n |-> [id |-> i, obj |-> f[i].obj, keys |-> f[i].keys,
                                    choices |-> f[i].choices,
                                    answer_index |-> f[i].answer_index]] :
                     f \in [1..n -> Shapes]} : n \in 0..MaxItems}

\* What the service call can produce: an exception, or a response whose text
\* is empty, is no JSON at all, is a JSON array (bare, inside code fences or
\* prose, or wrapped in an object), is a JSON object without any array, or is
\* a JSON number or null.
Responses ==
    {[form |-> f, items |-> <<>>] : f \in {"raise", "empty", "garbage", "object", "scalar"}}
    \cup {[form |-> f, items |-> a] : f \in {"array", "fenced", "wrapped"}, a \in Arrays}

\* Lines 105-120: the text from the first "[" to the last "]" is parsed when
\* both exist, otherwise the text without code fences; ok is FALSE when
\* json.loads raises.
ParseResponse(resp) ==
    IF resp.form \in {"array", "fenced", "wrapped"}
    THEN [ok |-> TRUE, kind |-> "list", items |-> resp.items]
    ELSE IF resp.form = "object" THEN [ok |-> TRUE, kind |-> "dict", items |-> <<>>]
    ELSE IF resp.form = "scalar" THEN [ok |-> TRUE, kind |-> "scalar", items |-> <<>>]
    ELSE [ok |-> FALSE, kind |-> "none", items |-> <<>>]

\* Variant of IsValid that is content with any one of the keys.
IsValid_AnyKey(q) == q.obj /\ RequiredKeys \cap q.keys # {}

\* Lines 125-126: a dict holding all four keys.
IsValid(q) == q.obj /\ RequiredKeys \subseteq q.keys

\* Variant of InTry whose try block ends before the validation.
InTry_ParseOnly(pc) == pc \in {"call", "check_text", "parse"}

\* The positions of generate_questions inside the try block of lines 41-132.
InTry(pc) == pc \in {"call", "check_text", "parse", "validate"}

\* _choose_api_key: the user's own key if the lookup yields one (a failed
\* lookup counts as none), otherwise the global key, if any.
choose_api_key(userKey, globalKey) ==
    IF userKey = "set" THEN "user" ELSE IF globalKey THEN "global" ELSE "none"

InitClient ==
    /\ StoreInit
    /\ chunkLoop = [pc |-> "idle"]
    /\ chunker = [pc |-> "idle"]
    /\ renderer = [pc |-> "idle"]
    /\ flow = [pc |-> "idle"]
    /\ settings = [pc |-> "idle"]
    /\ resetter = [pc |-> "idle"]
    /\ trigger = [pc |-> "idle"]
    /\ referrals = [pc |-> "idle"]
    /\ battle = [pc |-> "idle"]
    /\ \E userKey \in {"set", "unset", "error"}, globalKey \in BOOLEAN :
         client = [pc |-> "choose_key", userKey |-> userKey, globalKey |-> globalKey,
                   api_key |-> "none", response |-> [form |-> "none", items |-> <<>>],
                   parsed |-> [ok |-> FALSE, kind |-> "none", items |-> <<>>],
                   exc |-> "none", result |-> <<>>, escaped |-> FALSE]

\* Lines 37-39: no key, no call.
ChooseKey ==
    /\ client.pc = "choose_key"
    /\ LET key == choose_api_key(client.userKey, client.globalKey) IN
         client' = [client EXCEPT !.api_key = key,
                       !.pc = IF key = "none" THEN "done" ELSE "call"]
    /\ UNCHANGED <<storeVars, chunkLoop, chunker, renderer, flow, settings, resetter, moreVars>>

\* Lines 42-100: the client is built and the service is called.
CallService ==
    /\ client.pc = "call"
    /\ client.exc = "none"
    /\ \E resp \in Responses :
         client' = IF resp.form = "raise"
                   THEN [client EXCEPT !.response = resp, !.exc = "Exception"]
                   ELSE [client EXCEPT !.response = resp, !.pc = "check_text"]
    /\ UNCHANGED <<storeVars, chunkLoop, chunker, renderer, flow, settings, resetter, moreVars>>

\* Lines 102-103: an empty text returns the empty list.
CheckText ==
    /\ client.pc = "check_text"
    /\ client' = [client EXCEPT !.pc = IF client.response.form = "empty" THEN "done" ELSE "parse"]
    /\ UNCHANGED <<storeVars, chunkLoop, chunker, renderer, flow, settings, resetter, moreVars>>

\* Lines 105-120: extraction and json.loads; a parse error returns the empty list.
Parse ==
    /\ client.pc = "parse"
    /\ LET p == ParseResponse(client.response) IN
         client' = [client EXCEPT !.parsed = p, !.pc = IF p.ok THEN "validate" ELSE "done"]
    /\ UNCHANGED <<storeVars, chunkLoop, chunker, renderer, flow, settings, resetter, moreVars>>

\* Lines 122-128: the comprehension over the parsed value.  A list yields its
\* valid elements, a dict yields its keys (strings, none valid), and a number
\* or null cannot be iterated: TypeError.
Validate ==
    /\ client.pc = "validate"
    /\ client.exc = "none"
    /\ client' = IF client.parsed.kind = "scalar"
                 THEN [client EXCEPT !.exc = "TypeError"]
                 ELSE [client EXCEPT !.pc = "done",
                          !.result = SelectSeq(client.parsed.items, IsValid)]
    /\ UNCHANGED <<storeVars, chunkLoop, chunker, renderer, flow, settings, resetter, moreVars>>

\* A raised exception unwinds: caught by lines 130-132 when raised inside the
\* try block, otherwise it leaves generate_questions.
ClientExcept ==
    /\ client.exc # "none"
    /\ client.pc # "done"
    /\ client' = [client EXCEPT !.pc = "done", !.result = <<>>,
                     !.escaped = ~InTry(client.pc)]
    /\ UNCHANGED <<storeVars, chunkLoop, chunker, renderer, flow, settings, resetter, moreVars>>

NextClient == ChooseKey \/ CallService \/ CheckText \/ Parse \/ Validate \/ ClientExcept

SpecClient == InitClient /\ [][NextClient]_vars


(* ------------------------- text-mode rendering ------------------------- *)
\* The rendering of one item as a text message, the same code on both paths
\* (scheduler.py:67-76, bot.py:1510-1517).  An item lists its choices and
\* names its answer by index.
letters == <<"A", "B", "C", "D">>

ChoiceTexts == {"x", "y"}

\* Python indexing seq[i]: 0-based, negative indices count from the end.
InIndexRange(seq, i) == -Len(seq) <= i /\ i < Len(seq)
PyIndex(seq, i) == IF i >= 0 THEN seq[i + 1] ELSE seq[Len(seq) + i + 1]

\* The prefix of the choice at 0-based position i.
ChoicePrefix(i) == IF i < Len(letters) THEN PyIndex(letters, i) ELSE ToString(i + 1)

InitRender ==
    /\ StoreInit
    /\ chunkLoop = [pc |-> "idle"]
    /\ chunker = [pc |-> "idle"]
    /\ client = [pc |-> "idle"]
    /\ flow = [pc |-> "idle"]
    /\ settings = [pc |-> "idle"]
    /\ resetter = [pc |-> "idle"]
    /\ trigger = [pc |-> "idle"]
    /\ referrals = [pc |-> "idle"]
    /\ battle = [pc |-> "idle"]
    /\ \E n \in 1..MaxChoices :
         \E choices \in [1..n -> ChoiceTexts], answer_index \in -1..n :
            renderer = [pc |-> "choices", choices |-> choices,
                        answer_index |-> answer_index, i |-> 0, lines |-> <<>>,
                        answer |-> [prefix |-> "", text |-> ""], raised |-> FALSE]

\* One iteration of the loop over the choices: the prefixed choice line.
RenderChoice ==
    /\ renderer.pc = "choices"
    /\ renderer.i < Len(renderer.choices)
    /\ renderer' = [renderer EXCEPT
           !.lines = Append(@, [prefix |-> ChoicePrefix(renderer.i),
                                text |-> PyIndex(renderer.choices, renderer.i)]),
           !.i = @ + 1]
    /\ UNCHANGED <<storeVars, chunkLoop, chunker, client, flow, settings, resetter, moreVars>>

\* The correct-answer line: letters[answer_index] and choices[answer_index];
\* either lookup raises IndexError when the index is out of its range.
RenderAnswer ==
    /\ renderer.pc = "choices"
    /\ renderer.i = Len(renderer.choices)
    /\ renderer' =
         IF /\ InIndexRange(letters, renderer.answer_index)
            /\ InIndexRange(renderer.choices, renderer.answer_index)
         THEN [renderer EXCEPT !.pc = "done",
                  !.answer = [prefix |-> PyIndex(letters, renderer.answer_index),
                              text |-> PyIndex(renderer.choices, renderer.answer_index)]]
         ELSE [renderer EXCEPT !.pc = "done", !.raised = TRUE]
    /\ UNCHANGED <<storeVars, chunkLoop, chunker, client, flow, settings, resetter, moreVars>>

NextRender == RenderChoice \/ RenderAnswer

SpecRender == InitRender /\ [][NextRender]_vars

(* --------------------------- session dialogue -------------------------- *)
\* One session of the generate dialogue followed from the input prompt to the
\* last send: what the input handlers put into the session dict, what the
\* delay handlers store, which generation call the session leads to and the
\* waits and sends of its delivery, on the immediate and on the scheduled path.
MinDelay == 5
MaxDelay == 60
DefaultDelay == 5

\* What a delay button's callback data or a typed custom delay can carry.
RawDelays == {-1, 0, MinDelay - 1, MinDelay, MinDelay + 1, 30,
              MaxDelay - 1, MaxDelay, MaxDelay + 1, 100}
RawInputs == {[number |-> TRUE, value |-> v] : v \in RawDelays}
                \cup {[number |-> FALSE, value |-> 0]}

\* Variant of Clamp without the lower limit.
Clamp_NoFloor(d) == Min(MaxDelay, d)

\* max(5, min(60, d))
Clamp(d) == Max(MinDelay, Min(MaxDelay, d))

\* state.get("delay_seconds", 5) on a stored value that is <<>> when absent.
DelayOrDefault(stored) == IF stored = <<>> THEN DefaultDelay ELSE stored[1]

\* The texts a document reader can extract; <<>> when the reader failed.
FileTexts == {t \in Texts : Len(t) <= 2}

\* The documents a file message can carry and what fetching them meets.
Documents == [attached : BOOLEAN, too_big : BOOLEAN, download : {"ok", "raises"},
              text : FileTexts]

\* Variant of fetch_and_parse_file that saves the file record before it
\* looks at the extracted text.
fetch_and_parse_file_SaveFirst(doc) ==
    IF ~doc.attached \/ doc.too_big
    THEN [raised |-> "ValueError", text |-> <<>>, saved |-> FALSE]
    ELSE IF doc.download = "raises"
    THEN [raised |-> "Exception", text |-> <<>>, saved |-> FALSE]
    ELSE IF strip(doc.text) = <<>>
    THEN [raised |-> "ValueError", text |-> <<>>, saved |-> TRUE]
    ELSE [raised |-> "", text |-> doc.text, saved |-> TRUE]

\* fetch_and_parse_file: how the call ends ("" when it returns, else the kind
\* of exception), the text it returns and whether it saved a file record.
fetch_and_parse_file(doc) ==
    IF ~doc.attached \/ doc.too_big
    THEN [raised |-> "ValueError", text |-> <<>>, saved |-> FALSE]
    ELSE IF doc.download = "raises"
    THEN [raised |-> "Exception", text |-> <<>>, saved |-> FALSE]
    ELSE IF strip(doc.text) = <<>>
    THEN [raised |-> "ValueError", text |-> <<>>, saved |-> FALSE]
    ELSE [raised |-> "", text |-> doc.text, saved |-> TRUE]

\* What get_youtube_transcript returns: a transcript, or audio when there is
\* no transcript; the title is None when the metadata could not be read.
VideoResults ==
    {[text |-> "transcript", audio |-> "", mime |-> "", title |-> t, description |-> d] :
        t \in {"", "Video"}, d \in {"", "about"}}
    \cup {[text |-> "", audio |-> "bytes", mime |-> "audio/mp3", title |-> t, description |-> d] :
        t \in {"", "Video"}, d \in {"", "about"}}

NoGenCall == [branch |-> "none", file_text |-> <<>>, text |-> "", title_only |-> FALSE,
              topic_title |-> "", allow_beyond |-> FALSE, difficulty |-> "",
              media_data |-> "", mime_type |-> ""]

\* state.get("difficulty", "Medium") on a stored value that is "" when absent.
DifficultyOrDefault(stored) == IF stored = "" THEN "Medium" ELSE stored

\* The generation call of send_now (bot.py:1471-1499): the branch it takes
\* and the arguments it passes.  On the file branch the call is repeated per
\* chunk of the file content, held in file_text.
GenCallNow(note, title, file_content, media_data, mime_type, allow_beyond, difficulty) ==
    IF file_content # <<>>
    THEN [NoGenCall EXCEPT !.branch = "file", !.file_text = file_content,
             !.allow_beyond = TRUE, !.difficulty = difficulty]
    ELSE IF title # ""
    THEN [NoGenCall EXCEPT !.branch = "title", !.title_only = TRUE, !.topic_title = title,
             !.allow_beyond = TRUE, !.difficulty = difficulty]
    ELSE IF media_data # ""
    THEN [NoGenCall EXCEPT !.branch = "media", !.allow_beyond = TRUE,
             !.difficulty = difficulty, !.media_data = media_data, !.mime_type = mime_type]
    ELSE [NoGenCall EXCEPT !.branch = "note", !.text = note, !.allow_beyond = allow_beyond,
             !.difficulty = difficulty]

\* The generation call of _tick (scheduler.py:46-59) for a stored job: no
\* media branch, and no difficulty argument, so that generate_questions runs
\* on its default (gemini.py:32).
GenCallTick(job) ==
    IF job.file_content # <<>>
    THEN [NoGenCall EXCEPT !.branch = "file", !.file_text = job.file_content,
             !.allow_beyond = TRUE, !.difficulty = "Medium"]
    ELSE IF job.title # ""
    THEN [NoGenCall EXCEPT !.branch = "title", !.title_only = TRUE,
             !.topic_title = job.title, !.allow_beyond = TRUE, !.difficulty = "Medium"]
    ELSE [NoGenCall EXCEPT !.branch = "note", !.text = job.note,
             !.allow_beyond = job.allow_beyond, !.difficulty = "Medium"]

InputStages == {"await_note", "await_title", "await_file", "await_youtube", "await_audio"}

\* The session as handle_input_choice leaves it, waiting for its input.
InitFlow ==
    /\ StoreInit
    /\ chunkLoop = [pc |-> "idle"]
    /\ chunker = [pc |-> "idle"]
    /\ client = [pc |-> "idle"]
    /\ renderer = [pc |-> "idle"]
    /\ settings = [pc |-> "idle"]
    /\ resetter = [pc |-> "idle"]
    /\ trigger = [pc |-> "idle"]
    /\ referrals = [pc |-> "idle"]
    /\ battle = [pc |-> "idle"]
    /\ \E stage \in InputStages, num \in 1..MaxSends :
         flow = [pc |-> "session", stage |-> stage, num_questions |-> num,
                 questions |-> 0, persisted |-> -1, title |-> "", note |-> "",
                 file_content |-> <<>>, media_data |-> "", mime_type |-> "",
                 difficulty |-> "", allow_beyond |-> FALSE, delay_seconds |-> <<>>, reply |-> "", files |-> 0, fetches |-> 0,
                 fetched |-> [raised |-> "none", text |-> <<>>, saved |-> FALSE],
                 path |-> "none", job |-> <<>>, call |-> NoGenCall,
                 delay |-> 0, left |-> 0, events |-> <<>>]

FlowFrame == UNCHANGED <<storeVars, chunkLoop, chunker, client, renderer, settings, resetter, moreVars>>

\* ask_difficulty
ask_difficulty(f) == [f EXCEPT !.stage = "choose_difficulty"]

handle_note_submission ==
    /\ flow.pc = "session" /\ flow.stage = "await_note"
    /\ \E text \in {"", "note"} :
         flow' = ask_difficulty([flow EXCEPT !.note = text])
    /\ FlowFrame

handle_title_submission ==
    /\ flow.pc = "session" /\ flow.stage = "await_title"
    /\ \E text \in {"", "Topic"} :
         flow' = ask_difficulty([flow EXCEPT !.title = text])
    /\ FlowFrame

\* handle_file_submission: the text is stored and the dialogue advances only
\* when fetch_and_parse_file returned; both except clauses reply and stop.
handle_file_submission ==
    /\ flow.pc = "session" /\ flow.stage = "await_file"
    /\ flow.fetches < MaxFetches
    /\ \E doc \in Documents :
         LET r == fetch_and_parse_file(doc)
             called == [flow EXCEPT !.fetched = r, !.fetches = @ + 1,
                                    !.files = IF r.saved THEN @ + 1 ELSE @] IN
           flow' =
             IF r.raised = "ValueError"
             THEN [called EXCEPT !.reply = "File Error"]
             ELSE IF r.raised = "Exception"
             THEN [called EXCEPT !.reply = "Failed to process file"]
             ELSE IF strip(r.text) = <<>>
             THEN [called EXCEPT !.reply = "Could not extract text"]
             ELSE ask_difficulty([called EXCEPT !.file_content = r.text, !.reply = ""])
    /\ FlowFrame

\* handle_youtube_submission: a transcript becomes the note, audio becomes the
\* media of the session; a failed fetch drops the session.
handle_youtube_submission ==
    /\ flow.pc = "session" /\ flow.stage = "await_youtube"
    /\ \/ \E v \in VideoResults :
            LET titled == IF v.title # "" THEN [flow EXCEPT !.title = v.title] ELSE flow IN
              flow' = ask_difficulty(
                 IF v.text # ""
                 THEN [titled EXCEPT !.note = v.text]
                 ELSE [titled EXCEPT !.media_data = v.audio, !.mime_type = v.mime,
                          !.note = IF v.description # "" THEN "Video Description" ELSE @])
       \/ flow' = [flow EXCEPT !.pc = "end", !.reply = "Failed to process YouTube video"]
    /\ FlowFrame

\* handle_audio_submission: the downloaded bytes, their type and the fixed
\* title are stored; a failed download replies and stores nothing.
handle_audio_submission ==
    /\ flow.pc = "session" /\ flow.stage = "await_audio"
    /\ \E mime \in {"audio/ogg", "audio/mp3"}, downloaded \in BOOLEAN :
         flow' =
           IF downloaded
           THEN ask_difficulty([flow EXCEPT !.media_data = "bytes", !.mime_type = mime,
                                            !.title = "Audio Note", !.reply = ""])
           ELSE [flow EXCEPT !.reply = "Error processing audio"]
    /\ FlowFrame

handle_difficulty_selection ==
    /\ flow.pc = "session"
    /\ \E diff \in {"Medium", "Hard"} :
         /\ flow.stage # "choose_destination" \/ flow.difficulty # diff
         /\ flow' = [flow EXCEPT !.stage = "choose_destination", !.difficulty = diff]
    /\ FlowFrame

\* toggle_beyond_note: the button only ever carries "yes".
toggle_beyond_note ==
    /\ flow.pc = "session"
    /\ ~flow.allow_beyond
    /\ flow' = [flow EXCEPT !.allow_beyond = TRUE]
    /\ FlowFrame

handle_destination_selection ==
    /\ flow.pc = "session"
    /\ flow.stage # "choose_delay"
    /\ flow' = [flow EXCEPT !.stage = "choose_delay"]
    /\ FlowFrame

\* handle_delay: the Custom button asks for a typed delay; any other button
\* stores its clamped number.  A callback whose data is no number raises
\* before anything is stored.
handle_delay ==
    /\ flow.pc = "session"
    /\ \/ /\ flow.stage # "await_custom_delay"
          /\ flow' = [flow EXCEPT !.stage = "await_custom_delay"]
       \/ \E raw \in RawInputs :
            /\ raw.number
            /\ flow' = [flow EXCEPT !.delay_seconds = <<Clamp(raw.value)>>,
                                    !.stage = "confirm_send_or_schedule",
                                    !.reply = "Delay set"]
    /\ FlowFrame

\* handle_custom_delay: a number within the limits is stored; anything else
\* is answered with the invalid-delay reply and stores nothing.
handle_custom_delay ==
    /\ flow.pc = "session" /\ flow.stage = "await_custom_delay"
    /\ \E raw \in RawInputs :
         flow' =
           IF raw.number /\ ~(raw.value < MinDelay \/ raw.value > MaxDelay)
           THEN [flow EXCEPT !.delay_seconds = <<raw.value>>,
                             !.stage = "confirm_send_or_schedule", !.reply = "Delay set"]
           ELSE [flow EXCEPT !.reply = "Invalid delay"]
    /\ FlowFrame

\* The list a run goes on with when its generation calls yield n valid items
\* in all: the file branch slices the collected list to the requested number,
\* the other branches assign the call's result as it is.
QuestionsKept(branch, n, num) == IF branch = "file" THEN Min(n, num) ELSE n

\* send_now up to the end of generation: the session's delay is read without
\* another clamp, the generation call follows the session's content and n
\* items come back; with none the run ends.  The session is popped in the
\* finally clause in every case.
FlowSendNow ==
    /\ flow.pc = "session"
    /\ \E n \in 0..MaxSends :
         LET call == GenCallNow(flow.note, flow.title, flow.file_content,
                                flow.media_data, flow.mime_type, flow.allow_beyond,
                                DifficultyOrDefault(flow.difficulty))
             kept == QuestionsKept(call.branch, n, flow.num_questions) IN
         flow' = [flow EXCEPT
            !.pc = IF kept = 0 THEN "end" ELSE "sending",
            !.path = "now",
            !.delay = DelayOrDefault(flow.delay_seconds),
            !.call = call,
            !.questions = kept,
            !.left = kept]
    /\ FlowFrame

Flow_do_schedule ==
    /\ flow.pc = "session"
    /\ flow.stage # "await_schedule_time"
    /\ flow' = [flow EXCEPT !.stage = "await_schedule_time"]
    /\ FlowFrame

\* handle_schedule_time: the job document takes the session's note, title,
\* file content and delay; the session is popped.
Flow_handle_schedule_time ==
    /\ flow.pc = "session" /\ flow.stage = "await_schedule_time"
    /\ flow' = [flow EXCEPT
          !.pc = "stored",
          !.job = <<[note |-> flow.note, title |-> flow.title,
                     file_content |-> flow.file_content,
                     allow_beyond |-> flow.allow_beyond,
                     difficulty |-> DifficultyOrDefault(flow.difficulty),
                     num_questions |-> flow.num_questions,
                     delay_seconds |-> DelayOrDefault(flow.delay_seconds)]>>]
    /\ FlowFrame

\* _tick up to the end of generation for the stored job: the delay is
\* clamped, the generation call follows the job's content.
FlowTick ==
    /\ flow.pc = "stored"
    /\ \E n \in 0..MaxSends :
         LET call == GenCallTick(flow.job[1])
             kept == QuestionsKept(call.branch, n, flow.job[1].num_questions) IN
         flow' = [flow EXCEPT
            !.pc = IF kept = 0 THEN "end" ELSE "sending",
            !.path = "tick",
            !.delay = Clamp(flow.job[1].delay_seconds),
            !.call = call,
            !.questions = kept,
            !.left = kept]
    /\ FlowFrame

\* One iteration of the delivery loop: time.sleep(delay), then the send.
FlowSendItem ==
    /\ flow.pc = "sending"
    /\ flow.left > 0
    /\ flow' = [flow EXCEPT
          !.events = @ \o <<[kind |-> "wait", secs |-> flow.delay],
                            [kind |-> "send", secs |-> 0]>>,
          !.left = @ - 1]
    /\ FlowFrame

\* The loop is over; send_now stores the Quiz with the whole list, _tick
\* stores none.
FlowFinish ==
    /\ flow.pc = "sending"
    /\ flow.left = 0
    /\ flow' = [flow EXCEPT !.pc = "end",
                            !.persisted = IF flow.path = "now" THEN flow.questions ELSE @]
    /\ FlowFrame

NextFlow ==
    \/ handle_note_submission
    \/ handle_title_submission
    \/ handle_file_submission
    \/ handle_youtube_submission
    \/ handle_audio_submission
    \/ handle_difficulty_selection
    \/ toggle_beyond_note
    \/ handle_destination_selection
    \/ handle_delay
    \/ handle_custom_delay
    \/ FlowSendNow
    \/ Flow_do_schedule
    \/ Flow_handle_schedule_time
    \/ FlowTick
    \/ FlowSendItem
    \/ FlowFinish

SpecFlow == InitFlow /\ [][NextFlow]_vars


(* ------------------------------ tier caps ------------------------------ *)
\* One user in the settings and profile menus: the plan, the stored personal
\* API key (a text, <<>> when none is stored), the questions_per_note setting, and what each handler that resolves
\* the user's caps resolved last.
MaxQuestionsCustomKey == 3
MaxQuestionsPremium == 2
MaxQuestionsRegular == 1

QuestionCap(tier) ==
    IF tier = "custom" THEN MaxQuestionsCustomKey
    ELSE IF tier = "premium" THEN MaxQuestionsPremium
    ELSE MaxQuestionsRegular

\* The tier of set_questions_per_note (bot.py:1787-1792).
SettingTier(premium, key) ==
    IF key # <<>> /\ strip(key) # <<>> THEN "custom"
    ELSE IF premium THEN "premium"
    ELSE "regular"

\* The tier of handle_profile (bot.py:701-709).
ProfileTier(premium, key) ==
    IF premium THEN "premium"
    ELSE IF key # <<>> THEN "custom"
    ELSE "regular"

NoResolution == [premium |-> FALSE, key |-> <<>>, tier |-> "none", cap |-> 0]

\* No generation run yet: the path of the latest run, its question count and
\* the plan and key the user held when it ran.
NoRun == [path |-> "none", num |-> 0, premium |-> FALSE, key |-> <<>>]

InitSettings ==
    /\ StoreInit
    /\ chunkLoop = [pc |-> "idle"]
    /\ chunker = [pc |-> "idle"]
    /\ client = [pc |-> "idle"]
    /\ renderer = [pc |-> "idle"]
    /\ flow = [pc |-> "idle"]
    /\ resetter = [pc |-> "idle"]
    /\ trigger = [pc |-> "idle"]
    /\ referrals = [pc |-> "idle"]
    /\ battle = [pc |-> "idle"]
    /\ \E premium \in BOOLEAN :
         settings = [pc |-> "menu", premium |-> premium, gemini_api_key |-> <<>>,
                     questions_per_note |-> 1, answer |-> "",
                     profile |-> NoResolution, setting |-> NoResolution,
                     job |-> <<>>, run |-> NoRun]

SettingsFrame == UNCHANGED <<storeVars, chunkLoop, chunker, client, renderer, flow, resetter, moreVars>>

\* handle_set_gemini_key with a key that validates: the key is stored.
handle_set_gemini_key ==
    /\ settings.pc = "menu"
    /\ settings.gemini_api_key = <<>>
    /\ settings' = [settings EXCEPT !.gemini_api_key = <<"k">>, !.answer = "Key saved"]
    /\ SettingsFrame

remove_gemini_key ==
    /\ settings.pc = "menu"
    /\ settings.gemini_api_key # <<>>
    /\ settings' = [settings EXCEPT !.gemini_api_key = <<>>, !.answer = "Key removed"]
    /\ SettingsFrame

\* set_questions_per_note: the value is stored unless it exceeds the cap of
\* the user's tier.
set_questions_per_note(new_value) ==
    /\ settings.pc = "menu"
    /\ LET tier == SettingTier(settings.premium, settings.gemini_api_key)
           max_limit == QuestionCap(tier)
           resolved == [premium |-> settings.premium, key |-> settings.gemini_api_key,
                        tier |-> tier, cap |-> max_limit] IN
         settings' =
           IF new_value > max_limit
           THEN [settings EXCEPT !.setting = resolved, !.answer = "Limit"]
           ELSE [settings EXCEPT !.setting = resolved, !.answer = "Updated",
                                 !.questions_per_note = new_value]
    /\ SettingsFrame

\* handle_profile: the caps shown are those of the tier it resolves.
handle_profile ==
    /\ settings.pc = "menu"
    /\ LET tier == ProfileTier(settings.premium, settings.gemini_api_key) IN
         settings' = [settings EXCEPT
            !.profile = [premium |-> settings.premium, key |-> settings.gemini_api_key,
                         tier |-> tier, cap |-> QuestionCap(tier)],
            !.answer = "Profile"]
    /\ SettingsFrame

\* handle_add_premium: an administrator grants the user a premium plan.
handle_add_premium ==
    /\ settings.pc = "menu"
    /\ ~settings.premium
    /\ settings' = [settings EXCEPT !.premium = TRUE, !.answer = "Premium"]
    /\ SettingsFrame

\* send_now, lines 1452-1453: the run takes the stored questions_per_note.
Settings_send_now ==
    /\ settings.pc = "menu"
    /\ settings' = [settings EXCEPT
          !.run = [path |-> "now", num |-> settings.questions_per_note,
                   premium |-> settings.premium, key |-> settings.gemini_api_key]]
    /\ SettingsFrame

\* handle_schedule_time: the job document takes the stored questions_per_note.
Settings_handle_schedule_time ==
    /\ settings.pc = "menu"
    /\ settings.job = <<>>
    /\ settings' = [settings EXCEPT !.job = <<[num_questions |-> settings.questions_per_note]>>]
    /\ SettingsFrame

\* _tick, line 39: the run takes the job's num_questions.
Settings_tick ==
    /\ settings.pc = "menu"
    /\ settings.job # <<>>
    /\ settings' = [settings EXCEPT
          !.job = <<>>,
          !.run = [path |-> "tick", num |-> settings.job[1].num_questions,
                   premium |-> settings.premium, key |-> settings.gemini_api_key]]
    /\ SettingsFrame

NextSettings ==
    \/ handle_set_gemini_key
    \/ remove_gemini_key
    \/ handle_add_premium
    \/ Settings_send_now
    \/ Settings_handle_schedule_time
    \/ Settings_tick
    \/ \E v \in 1..(MaxQuestionsCustomKey + 1) : set_questions_per_note(v)
    \/ handle_profile

SpecSettings == InitSettings /\ [][NextSettings]_vars


(* ----------------------- reset_notes_if_new_day ------------------------ *)
\* One execution of UsersRepository.reset_notes_if_new_day (users.py:151-167)
\* followed statement by statement, over every kind of stored last_note_time:
\* absent or None, an empty string, a string that is no ISO date, an ISO
\* string and a datetime.
MaxNotes == 2
Days == 0..Day(MaxTime)

LastNoteTimes ==
    {[kind |-> "none", text |-> "", day |-> 0],
     [kind |-> "str", text |-> "", day |-> 0],
     [kind |-> "str", text |-> "yesterday", day |-> 0]}
    \cup {[kind |-> "str", text |-> iso, day |-> 0] : iso \in {"day0", "day1"}}
    \cup {[kind |-> "datetime", text |-> "", day |-> d] : d \in Days}

NoValue == [kind |-> "none", text |-> "", day |-> 0]

\* `not last`: None and the empty string are false, a datetime is true.
Falsy(last) == last.kind = "none" \/ (last.kind = "str" /\ last.text = "")

\* datetime.fromisoformat: the datetime an ISO string denotes; raises on
\* anything else.
IsIso(text) == text \in {"day0", "day1"}
fromisoformat(text) ==
    [kind |-> "datetime", text |-> "", day |-> IF text = "day0" THEN 0 ELSE 1]

\* Variant of DifferentDate that holds for every pair of dates.
DifferentDate_Always(last, today) == TRUE

\* last.date() != now.date()
DifferentDate(last, today) == last.day # today

InitReset ==
    /\ StoreInit
    /\ chunkLoop = [pc |-> "idle"]
    /\ chunker = [pc |-> "idle"]
    /\ client = [pc |-> "idle"]
    /\ renderer = [pc |-> "idle"]
    /\ flow = [pc |-> "idle"]
    /\ settings = [pc |-> "idle"]
    /\ trigger = [pc |-> "idle"]
    /\ referrals = [pc |-> "idle"]
    /\ battle = [pc |-> "idle"]
    /\ \E exists \in BOOLEAN, n \in 0..MaxNotes, total \in 0..1,
          stored \in LastNoteTimes, today \in Days :
         LET doc == [notes_today |-> n, total_notes |-> n + total,
                     last_note_time |-> stored] IN
           resetter = [pc |-> "get", exists |-> exists, doc |-> doc, before |-> doc,
                       today |-> today, last |-> NoValue, raised |-> FALSE]

ResetFrame == UNCHANGED <<storeVars, chunkLoop, chunker, client, renderer, flow, settings, moreVars>>

\* Lines 152-154: the user is read; a missing user ends the call.
ResetGet ==
    /\ resetter.pc = "get"
    /\ resetter' = [resetter EXCEPT !.pc = IF resetter.exists THEN "last" ELSE "done"]
    /\ ResetFrame

\* Lines 155-157: the stored value is read; a false one ends the call.
ResetLast ==
    /\ resetter.pc = "last"
    /\ LET last == resetter.doc.last_note_time IN
         resetter' = [resetter EXCEPT !.last = last,
                         !.pc = IF Falsy(last) THEN "done" ELSE "parse"]
    /\ ResetFrame

\* Lines 158-164: a string is parsed, a failed parse leaves None and ends
\* the call.
ResetParse ==
    /\ resetter.pc = "parse"
    /\ LET last == IF resetter.last.kind = "str"
                   THEN IF IsIso(resetter.last.text)
                        THEN fromisoformat(resetter.last.text) ELSE NoValue
                   ELSE resetter.last IN
         resetter' = [resetter EXCEPT !.last = last,
                         !.pc = IF Falsy(last) THEN "done" ELSE "compare"]
    /\ ResetFrame

\* Lines 165-167: the dates are compared and notes_today is set to zero when
\* they differ.  last.date() raises on a value that is no datetime.
ResetCompare ==
    /\ resetter.pc = "compare"
    /\ resetter' =
         IF resetter.last.kind # "datetime"
         THEN [resetter EXCEPT !.pc = "done", !.raised = TRUE]
         ELSE IF DifferentDate(resetter.last, resetter.today)
         THEN [resetter EXCEPT !.pc = "done", !.doc.notes_today = 0]
         ELSE [resetter EXCEPT !.pc = "done"]
    /\ ResetFrame

NextReset == ResetGet \/ ResetLast \/ ResetParse \/ ResetCompare

SpecReset == InitReset /\ [][NextReset]_vars


(* --------------------------- interval trigger -------------------------- *)
\* QuizScheduler.start (scheduler.py:18-20): _tick is added to a background
\* scheduler with an interval trigger, max_instances=1 and coalesce=True.
\* The scheduler thread wakes when the job's next run time has passed,
\* possibly late; it collects the run times that are due, keeps the last one
\* when coalescing, and submits them to the executor as one instance unless
\* the job already has max_instances instances running.  A submitted run time
\* is executed, or dropped when it is older than the misfire grace time.
Interval == 5
max_instances == 1
coalesce == TRUE
MaxTrigTime == 21

\* The run times due at clock reading t, oldest first.
DueRunTimes(next_run, t) ==
    [k \in 1..((t - next_run) \div Interval + 1) |-> next_run + (k - 1) * Interval]

\* run_times[-1:] if coalesce else run_times
Coalesced(run_times) ==
    IF coalesce /\ run_times # <<>> THEN <<run_times[Len(run_times)]>> ELSE run_times

\* Variant of CanSubmit without the instance limit.
CanSubmit_Always(instances) == TRUE

\* The executor's test in submit_job.
CanSubmit(instances) == Cardinality(instances) < max_instances

InitTrigger ==
    /\ StoreInit
    /\ chunkLoop = [pc |-> "idle"]
    /\ chunker = [pc |-> "idle"]
    /\ client = [pc |-> "idle"]
    /\ renderer = [pc |-> "idle"]
    /\ flow = [pc |-> "idle"]
    /\ settings = [pc |-> "idle"]
    /\ resetter = [pc |-> "idle"]
    /\ referrals = [pc |-> "idle"]
    /\ battle = [pc |-> "idle"]
    /\ trigger = [pc |-> "started", clock |-> 0, next_run |-> Interval, instances |-> {},
                  wake |-> [due |-> 0, submitted |-> 0, skipped |-> FALSE],
                  skips |-> 0]

TriggerFrame == UNCHANGED <<storeVars, chunkLoop, chunker, client, renderer, flow, settings,
                            resetter, referrals, battle>>

\* Time passes, whatever the ticks are doing.
TriggerClock ==
    /\ trigger.pc = "started"
    /\ trigger.clock < MaxTrigTime
    /\ trigger' = [trigger EXCEPT !.clock = @ + 1]
    /\ TriggerFrame

\* The scheduler thread processes the job: the due run times, coalesced, go
\* to the executor as one instance, or are skipped when the limit is reached;
\* the next run time moves past the last due one.
TriggerWake ==
    /\ trigger.pc = "started"
    /\ trigger.next_run <= trigger.clock
    /\ LET due == DueRunTimes(trigger.next_run, trigger.clock)
           run_times == Coalesced(due)
           ok == CanSubmit(trigger.instances) IN
         trigger' = [trigger EXCEPT
            !.instances = IF ok
                          THEN @ \cup {[id |-> due[1], todo |-> Len(run_times),
                                        running |-> FALSE]}
                          ELSE @,
            !.wake = [due |-> Len(due), submitted |-> IF ok THEN Len(run_times) ELSE 0,
                      skipped |-> ~ok],
            !.skips = IF ok THEN @ ELSE Min(@ + 1, 2),
            !.next_run = due[Len(due)] + Interval]
    /\ TriggerFrame

\* The executor takes the instance's next run time: _tick starts, or the run
\* time is dropped as a misfire.
TickBegin ==
    /\ trigger.pc = "started"
    /\ \E i \in trigger.instances :
         /\ ~i.running /\ i.todo > 0
         /\ \E misfire \in BOOLEAN :
              trigger' = [trigger EXCEPT !.instances = (@ \ {i}) \cup
                 {IF misfire THEN [i EXCEPT !.todo = @ - 1] ELSE [i EXCEPT !.running = TRUE]}]
    /\ TriggerFrame

\* _tick returns, after its scan and all its blocking waits.
TickEnd ==
    /\ trigger.pc = "started"
    /\ \E i \in trigger.instances :
         /\ i.running
         /\ trigger' = [trigger EXCEPT !.instances =
                (@ \ {i}) \cup {[i EXCEPT !.running = FALSE, !.todo = @ - 1]}]
    /\ TriggerFrame

\* The instance has no run time left and is released.
InstanceEnd ==
    /\ trigger.pc = "started"
    /\ \E i \in trigger.instances :
         /\ ~i.running /\ i.todo = 0
         /\ trigger' = [trigger EXCEPT !.instances = @ \ {i}]
    /\ TriggerFrame

NextTrigger == TriggerClock \/ TriggerWake \/ TickBegin \/ TickEnd \/ InstanceEnd

SpecTrigger == InitTrigger /\ [][NextTrigger]_vars

(* ------------------------------ referrals ------------------------------ *)
\* UsersRepository.set_referrer, called from handler threads that run side by
\* side.  The users collection holds a document for some of the ids a deep
\* link can name; invited_by is 0 for None.
RefIds == 1..3
Registered == {1, 2}
Callers == {"h1", "h2"}
MaxRefCalls == 3

NoRefCall == [pc |-> "idle", user_id |-> 0, referrer_id |-> 0, result |-> FALSE, wrote |-> FALSE]

InitReferrals ==
    /\ StoreInit
    /\ chunkLoop = [pc |-> "idle"]
    /\ chunker = [pc |-> "idle"]
    /\ client = [pc |-> "idle"]
    /\ renderer = [pc |-> "idle"]
    /\ flow = [pc |-> "idle"]
    /\ settings = [pc |-> "idle"]
    /\ resetter = [pc |-> "idle"]
    /\ trigger = [pc |-> "idle"]
    /\ battle = [pc |-> "idle"]
    /\ referrals = [pc |-> "serving",
                    docs |-> [i \in RefIds |-> [exists |-> i \in Registered,
                                                invited_by |-> 0, referral_count |-> 0]],
                    calls |-> [c \in Callers |-> NoRefCall],
                    started |-> 0, succeeded |-> 0]

ReferralFrame == UNCHANGED <<storeVars, chunkLoop, chunker, client, renderer, flow, settings,
                             resetter, trigger, battle>>

\* Lines 41-43: the call starts; a self-referral returns False at once.
RefCall(c, user_id, referrer_id) ==
    /\ referrals.pc = "serving"
    /\ referrals.calls[c].pc \in {"idle", "done"}
    /\ referrals.started < MaxRefCalls
    /\ referrals' = [referrals EXCEPT
          !.started = @ + 1,
          !.calls[c] = [NoRefCall EXCEPT !.user_id = user_id, !.referrer_id = referrer_id,
                           !.pc = IF user_id = referrer_id THEN "done" ELSE "get"]]
    /\ ReferralFrame

\* Lines 46-48: the user's document is read; a stored referrer returns False.
RefGet(c) ==
    /\ referrals.pc = "serving"
    /\ referrals.calls[c].pc = "get"
    /\ LET user == referrals.docs[referrals.calls[c].user_id] IN
         referrals' = [referrals EXCEPT
            !.calls[c].pc = IF user.exists /\ user.invited_by # 0 THEN "done" ELSE "update"]
    /\ ReferralFrame

\* Lines 51-54: update_one with the filter {id, invited_by: None}, applied by
\* the database as one step; without a match the call returns False.
RefUpdate(c) ==
    /\ referrals.pc = "serving"
    /\ referrals.calls[c].pc = "update"
    /\ LET u == referrals.calls[c].user_id
           matched == referrals.docs[u].exists /\ referrals.docs[u].invited_by = 0 IN
         referrals' =
           IF matched
           THEN [referrals EXCEPT !.docs[u].invited_by = referrals.calls[c].referrer_id,
                                  !.calls[c].pc = "inc", !.calls[c].wrote = TRUE]
           ELSE [referrals EXCEPT !.calls[c].pc = "done"]
    /\ ReferralFrame

\* Lines 56-59: update_one({id: referrer_id}, $inc), which matches nothing when
\* no document has that id; the call returns True.
RefInc(c) ==
    /\ referrals.pc = "serving"
    /\ referrals.calls[c].pc = "inc"
    /\ LET r == referrals.calls[c].referrer_id IN
         referrals' = [referrals EXCEPT
            !.docs[r].referral_count = IF referrals.docs[r].exists THEN @ + 1 ELSE @,
            !.calls[c].pc = "done", !.calls[c].result = TRUE,
            !.succeeded = @ + 1]
    /\ ReferralFrame

NextReferrals ==
    \/ \E c \in Callers, u \in RefIds, r \in RefIds : RefCall(c, u, r)
    \/ \E c \in Callers : RefGet(c)
    \/ \E c \in Callers : RefUpdate(c)
    \/ \E c \in Callers : RefInc(c)

SpecReferrals == InitReferrals /\ [][NextReferrals]_vars

(* ------------------------------- battles ------------------------------- *)
\* One battle document, created by create_battle when the challenger finished
\* the quiz, and the users who open its deep link.  opponent_id 0 and scores
\* -1 stand for None.
BattleUsers == 1..3
Challenger == 1
MaxBattleQuestions == 2

NoBattleSession == [active |-> FALSE, current_index |-> 0, score |-> 0]

InitBattle ==
    /\ StoreInit
    /\ chunkLoop = [pc |-> "idle"]
    /\ chunker = [pc |-> "idle"]
    /\ client = [pc |-> "idle"]
    /\ renderer = [pc |-> "idle"]
    /\ flow = [pc |-> "idle"]
    /\ settings = [pc |-> "idle"]
    /\ resetter = [pc |-> "idle"]
    /\ trigger = [pc |-> "idle"]
    /\ referrals = [pc |-> "idle"]
    /\ \E cs \in 0..MaxBattleQuestions :
         battle = [pc |-> "created",
                   doc |-> [challenger_id |-> Challenger, challenger_score |-> cs,
                            challenger_total |-> MaxBattleQuestions,
                            opponent_id |-> 0, opponent_score |-> -1, opponent_total |-> -1,
                            status |-> "waiting"],
                   pending_battles |-> [u \in BattleUsers |-> NoBattleSession],
                   reply |-> [u \in BattleUsers |-> "none"]]

BattleFrame == UNCHANGED <<storeVars, chunkLoop, chunker, client, renderer, flow, settings,
                           resetter, trigger, referrals>>

\* _start_battle_quiz: a battle that is not waiting is reported as completed,
\* the challenger is turned away, anybody else gets an opponent session.
start_battle_quiz(user_id) ==
    /\ battle.pc = "created"
    /\ battle' =
         IF battle.doc.status # "waiting"
         THEN [battle EXCEPT !.reply[user_id] = "already completed"]
         ELSE IF battle.doc.challenger_id = user_id
         THEN [battle EXCEPT !.reply[user_id] = "yourself"]
         ELSE [battle EXCEPT !.reply[user_id] = "challenge",
                             !.pending_battles[user_id] = [NoBattleSession EXCEPT !.active = TRUE]]
    /\ BattleFrame

\* handle_battle_answer: the score counts a correct choice, the index advances.
handle_battle_answer(user_id, correct) ==
    /\ battle.pc = "created"
    /\ battle.pending_battles[user_id].active
    /\ battle.pending_battles[user_id].current_index < MaxBattleQuestions
    /\ battle' = [battle EXCEPT
          !.pending_battles[user_id].score = IF correct THEN @ + 1 ELSE @,
          !.pending_battles[user_id].current_index = @ + 1]
    /\ BattleFrame

\* BattlesRepository.set_opponent_score: update_one by _id alone.
set_opponent_score(doc, opponent_id, score, total) ==
    [doc EXCEPT !.opponent_id = opponent_id, !.opponent_score = score,
                !.opponent_total = total, !.status = "completed"]

\* _send_battle_question past the last question: _finish_battle in opponent
\* mode pops the session and records the score.
finish_battle(user_id) ==
    /\ battle.pc = "created"
    /\ battle.pending_battles[user_id].active
    /\ battle.pending_battles[user_id].current_index >= MaxBattleQuestions
    /\ battle' = [battle EXCEPT
          !.pending_battles[user_id] = NoBattleSession,
          !.reply[user_id] = "results",
          !.doc = set_opponent_score(battle.doc, user_id,
                                     battle.pending_battles[user_id].score, MaxBattleQuestions)]
    /\ BattleFrame

NextBattle ==
    \/ \E u \in BattleUsers : start_battle_quiz(u)
    \/ \E u \in BattleUsers, correct \in BOOLEAN : handle_battle_answer(u, correct)
    \/ \E u \in BattleUsers : finish_battle(u)

SpecBattle == InitBattle /\ [][NextBattle]_vars


(* ======================================================================= *)
(*                               Properties                                *)
(* ======================================================================= *)
JobIds == 1..Len(schedules)

\* Poller p holds job j: it claimed j in its current tick and has not finished it.
Executing(p, j) ==
    /\ pollers[p].pc \in {"gen", "send", "except"}
    /\ CurJob(p) = j

\* Poller p made its claim attempt on job j in its current tick.
Attempted(p, j) ==
    \E k \in 1..Len(pollers[p].due) :
        /\ pollers[p].due[k] = j
        /\ \/ k < pollers[p].i
           \/ k = pollers[p].i /\ pollers[p].pc # "claim"

Attempters(j) == {p \in Pollers : Attempted(p, j)}
Senders(j) == {jobHist[j].sends[k].by : k \in 1..Len(jobHist[j].sends)}

\* C1: of the concurrent claim attempts on one pending job exactly one
\* succeeds and moves the job to processing; every other attempt sees a
\* non-pending status, is skipped, and neither generates nor sends for the job.
C1_ExactlyOneClaimSucceeds ==
    \A j \in JobIds :
        /\ jobHist[j].claims <= 1
        /\ Attempters(j) # {} =>
              /\ jobHist[j].claims = 1
              /\ Cardinality(jobHist[j].claimedBy) = 1
              /\ schedules[j].status # "pending"
        /\ \A p \in Attempters(j) \ jobHist[j].claimedBy :
              /\ ~Executing(p, j)
              /\ p \notin jobHist[j].genBy
              /\ p \notin Senders(j)

\* Two pollers fetched the same pending job, both made their attempt, and the
\* winner is executing it.
C1_Witness ==
    \E j \in JobIds : \E p, q \in Pollers :
        /\ p # q
        /\ Attempted(p, j) /\ Attempted(q, j)
        /\ Executing(p, j)
        /\ q \notin jobHist[j].claimedBy

\* C2: whatever the interleaving of the pollers' ticks, generation for a job
\* is run by at most one worker, at most once, and each generated item of the
\* job is sent at most once.
C2_NoDoubleDelivery ==
    \A j \in JobIds :
        /\ Cardinality(jobHist[j].genBy) <= 1
        /\ jobHist[j].genRuns <= 1
        /\ Cardinality(Senders(j)) <= 1
        /\ \A a, b \in 1..Len(jobHist[j].sends) :
              a # b => jobHist[j].sends[a].item # jobHist[j].sends[b].item

\* A job delivered in full (two items) while the other poller had fetched it too.
C2_Witness ==
    \E j \in JobIds : \E q \in Pollers :
        /\ Len(jobHist[j].sends) = 2
        /\ schedules[j].status = "sent"
        /\ Attempted(q, j)
        /\ q \notin jobHist[j].claimedBy

\* The status changes a job may go through in one step.
StatusSteps == {<<"pending", "processing">>, <<"processing", "sent">>,
                <<"processing", "failed">>}

\* C3: a job's status moves only pending -> processing -> sent or
\* pending -> processing -> failed; a new job starts pending; a job in sent or
\* failed never changes again and is held by no poller.
C3_StatusMonotone ==
    /\ [][/\ \A j \in JobIds :
                \/ schedules'[j].status = schedules[j].status
                \/ <<schedules[j].status, schedules'[j].status>> \in StatusSteps
          /\ \A j \in (1..Len(schedules')) \ JobIds : schedules'[j].status = "pending"]_vars
    /\ [](\A j \in JobIds : \A p \in Pollers :
             Executing(p, j) => schedules[j].status = "processing")

\* One job has reached sent and another has reached failed.
C3_Witness ==
    \E j, k \in JobIds :
        /\ schedules[j].status = "sent"
        /\ schedules[k].status = "failed"

\* C5: a claimed job whose generation step yields no item (on the file path:
\* none across all chunks) is failed, never sent, and nothing is sent for it.
C5_EmptyGenerationFails ==
    \A j \in JobIds :
        jobHist[j].genLen = 0 =>
            /\ schedules[j].status = "failed"
            /\ jobHist[j].sends = <<>>

\* A file job whose chunks all came back empty.
C5_Witness ==
    \E j \in JobIds :
        /\ schedules[j].kind = "file"
        /\ jobHist[j].genLen = 0
        /\ schedules[j].status = "failed"

\* A step in which poller p leaves the except clause by running it (the
\* alternative, the process stopping, orphans the job).
HandlesException(p) ==
    /\ pollers[p].pc = "except"
    /\ pollers'[p].pc # "except"
    /\ jobHist'[CurJob(p)].orphaned = jobHist[CurJob(p)].orphaned

\* C6: an exception raised while a claimed job executes marks that job failed
\* and stays inside the tick: the tick goes on with the next fetched job, or
\* ends normally after the last one, so every fetched job before the poller's
\* position has been dealt with and the poller can tick again.
C6_ExceptionContained ==
    /\ [][\A p \in Pollers :
            HandlesException(p) =>
                /\ schedules'[CurJob(p)].status = "failed"
                /\ IF pollers[p].i < Len(pollers[p].due)
                   THEN /\ pollers'[p].pc = "claim"
                        /\ pollers'[p].due = pollers[p].due
                        /\ pollers'[p].i = pollers[p].i + 1
                   ELSE pollers'[p].pc = "idle"]_vars
    /\ [](\A p \in Pollers : \A k \in 1..Len(pollers[p].due) :
             k < pollers[p].i => schedules[pollers[p].due[k]].status # "pending")

\* A poller is past a job that failed on an exception (its generation had
\* returned items) and is about to claim the next job of the same batch.
C6_Witness ==
    \E p \in Pollers :
        /\ pollers[p].pc = "claim"
        /\ pollers[p].i = 2
        /\ schedules[pollers[p].due[1]].status = "failed"
        /\ jobHist[pollers[p].due[1]].genLen > 0
        /\ jobHist[pollers[p].due[1]].claimedBy = {p}

\* C7: a job whose worker stopped after the claim and before the final status
\* write stays in processing: no tick of any poller claims it, fails it,
\* completes it or executes it again.
C7_OrphanStaysProcessing ==
    \A j \in JobIds :
        jobHist[j].orphaned =>
            /\ schedules[j].status = "processing"
            /\ \A p \in Pollers : ~Executing(p, j)
            /\ jobHist[j].claims = 1

\* An orphaned job that the other poller, which had fetched it as pending,
\* has tried to claim since.
C7_Witness ==
    \E j \in JobIds : \E q \in Pollers :
        /\ jobHist[j].orphaned
        /\ Attempted(q, j)
        /\ q \notin jobHist[j].claimedBy

\* Job k comes before job j in the order of the due-job query.
FetchedBefore(k, j) ==
    \/ schedules[k].scheduled_at < schedules[j].scheduled_at
    \/ schedules[k].scheduled_at = schedules[j].scheduled_at /\ k < j

\* A step in which poller p starts a tick.
StartsTick(p) == pollers[p].pc = "idle" /\ pollers'[p].pc = "claim"

\* No job leaves pending before its instant; a job is claimed and its
\* generation run at most once, and exactly once when it has left pending; a
\* tick claims its fetched jobs in order, leaving none behind it pending.
C4_ClaimedOnceNotEarly ==
    /\ \A j \in JobIds :
          /\ schedules[j].status # "pending" =>
                /\ schedules[j].scheduled_at <= now
                /\ jobHist[j].claims = 1
          /\ jobHist[j].claims <= 1
          /\ jobHist[j].genRuns <= 1
    /\ \A p \in Pollers : \A k \in 1..Len(pollers[p].due) :
          k < pollers[p].i => schedules[pollers[p].due[k]].status # "pending"

\* C4 (as amended): a job scheduled for T stays pending through every tick
\* before T; a tick at or after T fetches it when fewer than BatchLimit due
\* pending jobs come before it in scheduled_at order, and a fetched job is
\* claimed and executed exactly once, however closely ticks follow each other.
C4_DueJobClaimedWithinBatch ==
    /\ []C4_ClaimedOnceNotEarly
    /\ [][\A p \in Pollers : StartsTick(p) =>
            /\ Len(pollers'[p].due) <= BatchLimit
            /\ \A j \in DueSet(now) :
                  Cardinality({k \in DueSet(now) : FetchedBefore(k, j)}) < BatchLimit
                      => j \in Range(pollers'[p].due)
            /\ \A j \in Range(pollers'[p].due) : j \in DueSet(now)]_vars

\* C4 (as stated): at the first tick at or after T the job is claimed, that
\* is, every tick fetches every job that is pending and due.
C4_DueJobClaimedAtFirstTick ==
    /\ []C4_ClaimedOnceNotEarly
    /\ [][\A p \in Pollers : StartsTick(p) =>
            \A j \in DueSet(now) : j \in Range(pollers'[p].due)]_vars

\* During a tick a poller executes a job it claimed at or after the job's
\* instant, an earlier job of the batch is done, and a job whose instant is
\* still ahead is pending.
C4_Witness ==
    \E p \in Pollers : \E j, k, m \in JobIds :
        /\ Executing(p, j)
        /\ schedules[j].scheduled_at <= now
        /\ schedules[k].status \in {"sent", "failed"}
        /\ schedules[m].status = "pending"
        /\ schedules[m].scheduled_at > now

\* C8: for every user and local day, the deliveries completed for the user
\* that day (immediate runs and scheduled jobs that reach sent) stay within
\* the daily cap of the user's tier.
C8_DeliveriesWithinDailyCap ==
    \A u \in Users : \A d \in DOMAIN delivered[u] :
        delivered[u][d] <= DailyCap(u)

\* The items sent for job j, in order.
SentItems(j) == [k \in 1..Len(jobHist[j].sends) |-> jobHist[j].sends[k].item]

\* All deliveries completed for user u.
RECURSIVE SumDays(_, _)
SumDays(f, d) == IF d < 0 THEN 0 ELSE f[d] + SumDays(f, d - 1)
DeliveriesOf(u) == SumDays(delivered[u], Day(MaxTime))

RECURSIVE SumUsers(_)
SumUsers(S) == IF S = {} THEN 0
               ELSE LET u == CHOOSE x \in S : TRUE IN DeliveriesOf(u) + SumUsers(S \ {u})

\* C9: once all items of a delivery are sent, on either path, the owner's
\* usage counters have each grown by one for that delivery (the lifetime
\* counter equals the deliveries completed, the daily counter is at least
\* today's), and a Quiz holding exactly the delivered items is persisted.
C9_DeliveryCountedAndPersisted ==
    /\ \A u \in Users :
          /\ users[u].total_notes = DeliveriesOf(u)
          /\ users[u].notes_today >= delivered[u][Day(now)]
    /\ Len(quizzes) = SumUsers(Users)
    /\ \A j \in JobIds :
          schedules[j].status = "sent" =>
              \E q \in 1..Len(quizzes) :
                  /\ quizzes[q].user_id = schedules[j].user_id
                  /\ quizzes[q].questions = SentItems(j)

\* C10: the immediate path starts a generation run for a user only when, at
\* that moment, the user has daily quota left and the cooldown since the
\* user's last submission has elapsed.
C10_GenerationGated ==
    [][\A t \in Threads :
          (runs[t].pc = "idle" /\ runs'[t].pc = "gen") =>
              /\ has_quota(runs'[t].user)
              /\ can_submit_note_now(runs'[t].user)]_vars

\* C11: the lazy daily reset never zeroes a user's counter a second time on
\* one local day once a submission of that day was counted, and no quota
\* check (in handle_generate after its reset, or in send_now) reads a count
\* that holds submissions counted on an earlier day.
C11_ResetOncePerDay ==
    [][\A u \in Users :
          /\ (handle_generate(u) /\ IsNewDay(u) /\ Day(now) \in zeroed[u]) =>
                 delivered[u][Day(now)] = 0
          /\ handle_generate(u) => users'[u].notes_today <= delivered[u][Day(now)]
          /\ (\E t \in Threads : send_now(t, u)) =>
                 users[u].notes_today <= delivered[u][Day(now)]]_vars

\* C12: once a user's count has reached the daily cap on some local day, every
\* quota check made on that day returns false (handle_generate opens no
\* session, send_now starts no run); a check made by handle_generate on a
\* later day finds the count at 0 and quota available.
C12_CapHoldsUntilNextDay ==
    [][\A u \in Users :
          /\ (handle_generate(u) /\ fullOn[u] = Day(now)) =>
                 ~(users'[u].notes_today < DailyCap(u))
          /\ (\E t \in Threads : send_now(t, u)) => fullOn[u] # Day(now)
          /\ (handle_generate(u) /\ fullOn[u] # NoTime /\ fullOn[u] < Day(now)) =>
                 /\ users'[u].notes_today = 0
                 /\ users'[u].notes_today < DailyCap(u)]_vars

\* The handler threads with a send_now run of user u in flight (generating
\* or sending with pacing waits).
InFlight(u) == {t \in Threads : runs[t].pc # "idle" /\ runs[t].user = u}

\* C13: at no time does one user have more than one generation/delivery run
\* in flight; a second sendnow arriving during the first run starts no run.
C13_OneRunPerUser ==
    \A u \in Users : Cardinality(InFlight(u)) <= 1

\* C14: for desired_count >= 1 and chunk_count >= 1, whatever the calls
\* return, the chunked loop calls generation at most chunk_count times, at
\* most once per chunk and in chunk order, and returns at most desired_count
\* items.
C14_LoopBounded ==
    chunkLoop.pc # "idle" /\ chunkLoop.chunks >= 1 =>
        /\ Len(chunkLoop.calls) <= chunkLoop.chunks
        /\ \A i \in 1..Len(chunkLoop.calls) : chunkLoop.calls[i].chunk \in 1..chunkLoop.chunks
        /\ \A i, j \in 1..Len(chunkLoop.calls) :
               i < j => chunkLoop.calls[i].chunk < chunkLoop.calls[j].chunk
        /\ chunkLoop.pc = "done" => Len(chunkLoop.result) <= chunkLoop.num

\* The loop has ended after three calls that together returned more than the
\* four items asked for.
C14_Witness ==
    /\ chunkLoop.pc = "done"
    /\ chunkLoop.chunks = 3
    /\ Len(chunkLoop.calls) = 3
    /\ chunkLoop.num = 4
    /\ Len(chunkLoop.questions) > 4
    /\ Len(chunkLoop.result) = 4

\* C15: in the chunked loop no generation call is made once the number of
\* items collected is at least desired_count (the remaining chunks are
\* skipped), and the loop ends only when that target is met or every chunk
\* was queried: an empty batch does not stop it.
C15_SkipWhenMetOnly ==
    [][/\ Len(chunkLoop'.calls) > Len(chunkLoop.calls) =>
              Len(chunkLoop.questions) < chunkLoop.num
       /\ (chunkLoop.pc = "loop" /\ chunkLoop'.pc = "done") =>
              \/ Len(chunkLoop.questions) >= chunkLoop.num
              \/ Len(chunkLoop.calls) = chunkLoop.chunks]_vars

\* Of three chunks the first returned nothing, the second was still queried
\* and met the target, and the third was skipped.
C15_Witness ==
    /\ chunkLoop.pc = "done"
    /\ chunkLoop.chunks = 3
    /\ Len(chunkLoop.calls) = 2
    /\ chunkLoop.calls[1].got = 0
    /\ chunkLoop.calls[2].got >= chunkLoop.num

\* C16: when every queried chunk returns exactly per_chunk =
\* max(1, desired_count div chunk_count) items, the result has length
\* min(desired_count, per_chunk * chunk_count); three chunks and ten desired
\* items give nine.
C16_ExactShareLength ==
    chunkLoop.pc = "done" /\ chunkLoop.chunks >= 1 =>
        LET share == IF chunkLoop.num \div chunkLoop.chunks < 1 THEN 1
                     ELSE chunkLoop.num \div chunkLoop.chunks
        IN /\ \A i \in 1..Len(chunkLoop.calls) : chunkLoop.calls[i].asked = share
           /\ (\A i \in 1..Len(chunkLoop.calls) : chunkLoop.calls[i].got = share) =>
                  /\ Len(chunkLoop.result) = Min(chunkLoop.num, share * chunkLoop.chunks)
                  /\ (chunkLoop.num = 10 /\ chunkLoop.chunks = 3) => Len(chunkLoop.result) = 9

\* Ten items desired from three chunks, each call returned its share of three.
C16_Witness ==
    /\ chunkLoop.pc = "done"
    /\ chunkLoop.num = 10
    /\ chunkLoop.chunks = 3
    /\ Len(chunkLoop.calls) = 3
    /\ \A i \in 1..3 : chunkLoop.calls[i].got = 3
    /\ Len(chunkLoop.result) = 9

\* The pieces of a list joined in order.
RECURSIVE Concat(_)
Concat(pieces) == IF pieces = <<>> THEN <<>> ELSE Head(pieces) \o Concat(Tail(pieces))

\* s is t without t's leading and trailing whitespace.
IsStripped(s, t) ==
    /\ s # <<>> => s[1] \notin Whitespace /\ s[Len(s)] \notin Whitespace
    /\ \E lead \in 0..Len(t) :
         /\ lead + Len(s) <= Len(t)
         /\ SubSeq(t, lead + 1, lead + Len(s)) = s
         /\ \A k \in 1..Len(t) : (k <= lead \/ k > lead + Len(s)) => t[k] \in Whitespace

\* C17 (as stated): the pieces returned by chunk_text, joined in order, are
\* the original text, leading and trailing whitespace included.
C17_ConcatIsText ==
    chunker.pc = "done" => Concat(chunker.chunks) = chunker.text

\* C17 (amended): the pieces returned by chunk_text, joined in order, are the
\* text without its leading and trailing whitespace; everything between is
\* reproduced exactly.
C17_ConcatIsStrippedText ==
    chunker.pc = "done" => IsStripped(Concat(chunker.chunks), chunker.text)

\* A text with whitespace at both ends and inside was split into two pieces.
C17_Witness ==
    /\ chunker.pc = "done"
    /\ chunker.text = <<" ", "a", " ", "b">> \/ chunker.text = <<"a", " ", "b", " ">>
    /\ Len(chunker.chunks) = 2

\* The number of whitespace characters at the start of t.
LeadingWhitespace(t) ==
    CHOOSE i \in 0..Len(t) :
        /\ \A k \in 1..i : t[k] \in Whitespace
        /\ i = Len(t) \/ t[i + 1] \notin Whitespace

\* The returned pieces are non-empty, at most max_chars long, all but the last
\* exactly max_chars long, and are consecutive slices of the text from left
\* to right; the list is empty only for an empty or all-whitespace text.
PiecesInOrder ==
    LET n == Len(chunker.chunks)
        m == chunker.max_chars
        lead == LeadingWhitespace(chunker.text)
    IN /\ \A k \in 1..n :
             /\ Len(chunker.chunks[k]) \in 1..m
             /\ k < n => Len(chunker.chunks[k]) = m
             /\ chunker.chunks[k] =
                    SubSeq(chunker.text, lead + (k - 1) * m + 1,
                           lead + (k - 1) * m + Len(chunker.chunks[k]))
       /\ n = 0 => \A k \in 1..Len(chunker.text) : chunker.text[k] \in Whitespace

\* C18: for any text and max_chars >= 1, chunk_text terminates, and what it
\* returns are left-to-right ordered, non-empty pieces of at most max_chars
\* characters, all but the last of exactly max_chars; it returns no piece
\* only for an empty or all-whitespace text.
C18_TerminatesWithOrderedPieces ==
    /\ <>(chunker.pc = "done")
    /\ [](chunker.pc = "done" => PiecesInOrder)

\* A text of four characters was returned as a full piece and a shorter last one.
C18_Witness ==
    /\ chunker.pc = "done"
    /\ chunker.max_chars = 3
    /\ Len(chunker.chunks) = 2
    /\ Len(chunker.chunks[1]) = 3
    /\ Len(chunker.chunks[2]) = 1

\* C19: from a parsed response array generate_questions returns exactly the
\* elements that are objects holding the keys question, choices, answer_index
\* and explanation, in their original order; the other elements are dropped.
C19_ValidElementsInOrder ==
    client.pc = "done" /\ client.parsed.kind = "list" =>
        LET wanted == {"question", "choices", "answer_index", "explanation"}
            items == client.parsed.items
            result == client.result
        IN /\ \A k \in 1..Len(result) :
                 /\ result[k] \in Range(items)
                 /\ result[k].obj
                 /\ wanted \subseteq result[k].keys
           /\ \A i \in 1..Len(items) :
                 (items[i].obj /\ wanted \subseteq items[i].keys) =>
                     \E k \in 1..Len(result) : result[k] = items[i]
           /\ \A j, k \in 1..Len(result) : j < k => result[j].id < result[k].id

\* Five elements, the second lacking a key and the fourth not an object: the
\* other three are returned.
C19_Witness ==
    /\ client.pc = "done"
    /\ client.parsed.kind = "list"
    /\ Len(client.parsed.items) = 5
    /\ ~(RequiredKeys \subseteq client.parsed.items[2].keys)
    /\ ~client.parsed.items[4].obj
    /\ Len(client.result) = 3
    /\ {client.result[k].id : k \in 1..3} = {1, 3, 5}

\* C20: no exception leaves generate_questions, and it returns the empty
\* list when no API key is available, when the service call raises, when the
\* response text is empty and when the response does not parse as a JSON
\* array.
C20_NoExceptionEscapes ==
    /\ ~client.escaped
    /\ (/\ client.pc = "done"
        /\ \/ client.userKey # "set" /\ ~client.globalKey
           \/ client.response.form \in {"raise", "empty", "garbage", "object", "scalar"})
       => client.result = <<>>

\* The response was a JSON number: iterating it raised inside the try block
\* and the empty list was returned.
C20_Witness ==
    /\ client.pc = "done"
    /\ client.exc = "TypeError"
    /\ client.result = <<>>
    /\ ~client.escaped

\* C21: every item generate_questions returns has an answer_index that is a
\* valid index into the item's own choices.
C21_AnswerIndexValid ==
    client.pc = "done" =>
        \A k \in 1..Len(client.result) :
            client.result[k].answer_index \in 0..(client.result[k].choices - 1)

\* C22: in text mode the choice at position i is labelled A to D for i < 4
\* and with the number i + 1 beyond, and for every item whose answer_index
\* is within its choices the correct-answer line shows the label and the
\* text of the choice at answer_index.
C22_AnswerLineShowsChoice ==
    LET n == Len(renderer.choices)
        label(i) == IF i < 4 THEN <<"A", "B", "C", "D">>[i + 1] ELSE ToString(i + 1)
    IN renderer.pc = "done" /\ renderer.answer_index \in 0..(n - 1) =>
           /\ Len(renderer.lines) = n
           /\ \A i \in 0..(n - 1) :
                  renderer.lines[i + 1] = [prefix |-> label(i), text |-> renderer.choices[i + 1]]
           /\ ~renderer.raised
           /\ renderer.answer = renderer.lines[renderer.answer_index + 1]

\* C23: on both paths every pacing wait of a delivery lasts between 5 and 60
\* seconds and every send comes right after a wait, so a wait separates any two
\* consecutive sends; the scheduled path uses the clamped delay of the stored
\* job, and a delay stored in the session is always within 5..60.
C23_DelayWithinLimits ==
    flow.pc # "idle" =>
        /\ \A k \in 1..Len(flow.delay_seconds) :
              flow.delay_seconds[k] \in MinDelay..MaxDelay
        /\ \A k \in 1..Len(flow.events) :
              /\ flow.events[k].kind = "wait" => flow.events[k].secs \in MinDelay..MaxDelay
              /\ flow.events[k].kind = "send" => k > 1 /\ flow.events[k - 1].kind = "wait"
        /\ flow.path = "tick" =>
              flow.delay = Max(MinDelay, Min(MaxDelay, flow.job[1].delay_seconds))

\* A scheduled delivery of at least two items whose session stored the
\* largest delay.
C23_Witness ==
    /\ flow.pc = "end"
    /\ flow.path = "tick"
    /\ flow.delay_seconds = <<MaxDelay>>
    /\ Len(flow.events) >= 4
    /\ flow.events[3] = [kind |-> "wait", secs |-> MaxDelay]

\* C24: when a send_now run ends because generation returned no usable item
\* (the single call, or every chunk's call on the file path), that run has
\* sent no item, no Quiz is persisted, the user's daily and lifetime counters
\* keep their values and the user's session is gone.
C24_EmptyGenerationLeavesNoTrace ==
    [][\A t \in Threads :
          (runs[t].pc = "gen" /\ runs'[t].pc = "idle" /\ lastExit'.how = "empty") =>
              LET u == runs[t].user IN
                /\ lastExit'.sent = 0
                /\ delivered' = delivered
                /\ quizzes' = quizzes
                /\ users'[u].notes_today = users[u].notes_today
                /\ users'[u].total_notes = users[u].total_notes
                /\ pending_notes'[u] = NoSession]_vars

\* A run has ended on the empty-generation exit after its timestamp update.
C24_Witness ==
    /\ lastExit.how = "empty"
    /\ \A t \in Threads : runs[t].pc = "idle"
    /\ quizzes = <<>>
    /\ \E u \in Users : users[u].last_note_time # NoTime /\ users[u].notes_today = 0

\* C25: the timestamp and the two counters move together.  Every send_now
\* run that passed the quota check has written the last-submission timestamp,
\* so whichever way the run ends (success, empty generation, exception) its
\* last step leaves both counters of the user one higher.
C25_TimestampAndCountersTogether ==
    [][\A t \in Threads :
          (runs[t].pc # "idle" /\ runs'[t].pc = "idle") =>
              LET u == runs[t].user IN
                /\ users[u].last_note_time # NoTime
                /\ users'[u].notes_today = users[u].notes_today + 1
                /\ users'[u].total_notes = users[u].total_notes + 1]_vars

\* C26: a session with a media source (uploaded audio, or a video without a
\* transcript) carries its bytes together with their media type, and when
\* send_now generates for that session the generation call is the multimodal
\* one, made with the session's bytes and media type.
C26_MediaReachesGeneration ==
    (flow.pc # "idle" /\ flow.media_data # "") =>
        /\ flow.mime_type # ""
        /\ flow.path = "now" =>
              /\ flow.call.branch = "media"
              /\ flow.call.media_data = flow.media_data
              /\ flow.call.mime_type = flow.mime_type

\* C27: every handler that resolves a user's caps picks the tier in the order
\* custom API key, premium, regular; a premium user with a personal key gets
\* the custom-key caps from each of them.
TierByOrder(premium, key) ==
    IF key # <<>> THEN "custom" ELSE IF premium THEN "premium" ELSE "regular"

C27_CustomKeyTierFirst ==
    settings.pc # "idle" =>
        \A r \in {settings.profile, settings.setting} :
            r.tier # "none" =>
                /\ r.tier = TierByOrder(r.premium, r.key)
                /\ r.cap = QuestionCap(TierByOrder(r.premium, r.key))

\* C28: the batch a tick fetches holds at most 10 jobs, each of them pending
\* when fetched and scheduled at or before the tick's clock reading, in
\* ascending scheduled_at order; the claim attempts of the tick go through the
\* batch in that order; and a job is claimed only while it is pending and due.
C28_BatchDueAndOrdered ==
    [][/\ \A p \in Pollers :
            /\ pollers'[p].pc # "idle" =>
                 LET due == pollers'[p].due IN
                   /\ Len(due) <= BatchLimit
                   /\ \A k \in 1..Len(due) : schedules'[due[k]].scheduled_at <= now'
                   /\ \A k \in 1..Len(due) : \A m \in k..Len(due) :
                         schedules'[due[k]].scheduled_at <= schedules'[due[m]].scheduled_at
            /\ (pollers[p].pc = "idle" /\ pollers'[p].pc # "idle") =>
                 /\ pollers'[p].i = 1
                 /\ \A k \in 1..Len(pollers'[p].due) :
                       schedules[pollers'[p].due[k]].status = "pending"
            /\ (pollers[p].pc # "idle" /\ pollers'[p].pc # "idle") =>
                 /\ pollers'[p].due = pollers[p].due
                 /\ pollers'[p].i \in {pollers[p].i, pollers[p].i + 1}
       /\ \A j \in 1..Len(schedules) :
            (schedules[j].status # "processing" /\ schedules'[j].status = "processing") =>
                /\ schedules[j].status = "pending"
                /\ schedules[j].scheduled_at <= now
                /\ \E p \in Pollers : pollers[p].pc = "claim" /\ CurJob(p) = j]_vars

\* A tick fetched a full batch while an eleventh due job stayed behind, and
\* has claimed its way to the second job of the batch.
C28_Witness ==
    \E p \in Pollers :
        /\ pollers[p].pc = "gen"
        /\ Len(pollers[p].due) = BatchLimit
        /\ pollers[p].i = 2
        /\ schedules[CurJob(p)].status = "processing"
        /\ \E j \in DueSet(now) : \A k \in 1..BatchLimit : pollers[p].due[k] # j

\* The local date a stored last_note_time denotes; none when it is absent,
\* empty or unparsable.
HasDate(stored) ==
    \/ stored.kind = "datetime"
    \/ stored.kind = "str" /\ stored.text \in {"day0", "day1"}
DateOf(stored) ==
    IF stored.kind = "datetime" THEN stored.day
    ELSE IF stored.text = "day0" THEN 0 ELSE 1

\* C29: reset_notes_if_new_day never raises and never changes anything but
\* notes_today; it sets notes_today to zero when the user exists and the
\* stored last_note_time denotes a local date other than today's, and changes
\* nothing when the user is missing, the time is absent or unparsable, or its
\* date is today.
C29_ResetFrame ==
    resetter.pc # "idle" =>
        /\ ~resetter.raised
        /\ resetter.doc.total_notes = resetter.before.total_notes
        /\ resetter.doc.last_note_time = resetter.before.last_note_time
        /\ resetter.pc = "done" =>
              resetter.doc.notes_today =
                 IF /\ resetter.exists
                    /\ HasDate(resetter.before.last_note_time)
                    /\ DateOf(resetter.before.last_note_time) # resetter.today
                 THEN 0
                 ELSE resetter.before.notes_today

\* A call that found an ISO string of another day and zeroed a used counter.
C29_Witness ==
    /\ resetter.pc = "done"
    /\ resetter.before.last_note_time.kind = "str"
    /\ resetter.before.notes_today = MaxNotes
    /\ resetter.doc.notes_today = 0
    /\ resetter.doc.total_notes > 0

\* What a call of fetch_and_parse_file from handle_file_submission leaves: a
\* returned text is non-blank, is stored in the session, has its file record
\* saved and moves the session to the difficulty stage; a failed call saves no
\* file record, stores no file content and leaves the stage as it was.
FetchStep == flow.pc = "session" /\ flow'.fetches = flow.fetches + 1

FetchEffect ==
    LET r == flow'.fetched IN
      /\ r.raised = "" =>
            /\ strip(r.text) # <<>>
            /\ flow'.file_content = r.text
            /\ flow'.files = flow.files + 1
            /\ flow'.stage = "choose_difficulty"
      /\ r.raised # "" =>
            /\ flow'.files = flow.files
            /\ flow'.file_content = <<>>
            /\ flow'.stage = "await_file"

\* C30 as stated: fetch_and_parse_file returns a text whose trimmed form is
\* non-empty or raises ValueError, and a failed call leaves no file record, no
\* file content and no advance to the difficulty stage.
C30_TextOrValueError ==
    [][FetchStep => (flow'.fetched.raised \in {"", "ValueError"} /\ FetchEffect)]_vars

\* C30, amended: fetch_and_parse_file returns a text whose trimmed form is
\* non-empty or raises, ValueError for a missing or oversized document or a
\* blank extraction and the download's own exception when the download fails;
\* a failed call leaves no file record, no file content and no advance to the
\* difficulty stage.
C30_TextOrException ==
    [][FetchStep => (flow'.fetched.raised \in {"", "ValueError", "Exception"} /\ FetchEffect)]_vars

\* A failed upload followed by one whose text was stored.
C30_Witness ==
    /\ flow.pc = "session"
    /\ flow.fetches = 2
    /\ flow.files = 1
    /\ flow.fetched.raised = ""
    /\ flow.file_content # <<>>
    /\ flow.stage = "choose_difficulty"

\* C31: the status of a stored job changes only in a step of a poller that is
\* working on that job; the owner's deletion changes neither a status nor
\* the poller's position, so the sends that remain go on; and a deleted
\* record stays deleted, no later status write bringing it back.
C31_OnlyPollerWritesStatus ==
    [][/\ \A j \in 1..Len(schedules) :
            schedules'[j].status # schedules[j].status =>
                \E p \in Pollers :
                    /\ pollers[p].pc \in {"claim", "gen", "send", "except"}
                    /\ CurJob(p) = j
                    /\ pollers'[p] # pollers[p]
       /\ \A j \in deleted : j \in deleted' /\ schedules'[j] = schedules[j]
       /\ deleted' # deleted =>
            /\ pollers' = pollers
            /\ \A j \in 1..Len(schedules) : schedules'[j] = schedules[j]
            /\ Len(schedules') = Len(schedules)]_vars

\* A job deleted while it was processing, before its first send: both items
\* were sent afterwards and the tick ended with the record still deleted.
C31_Witness ==
    \E j \in deleted :
        /\ jobHist[j].sendsAtDelete = 0
        /\ jobHist[j].claims = 1
        /\ Len(jobHist[j].sends) = jobHist[j].genLen
        /\ jobHist[j].genLen > 0
        /\ schedules[j].status = "processing"
        /\ \A p \in Pollers : pollers[p].pc = "idle"

\* C32: a poller instance never has two ticks running; a firing that comes
\* while a tick is running starts no second scan; and however many firings
\* were missed, the wake that follows the tick starts a single tick.
C32_NoOverlappingTicks ==
    [][trigger.pc # "idle" =>
         /\ Cardinality({i \in trigger'.instances : i.running}) <= 1
         /\ Cardinality(trigger'.instances) <= 1
         /\ \A i \in trigger'.instances : i.todo <= 1
         /\ (trigger'.next_run # trigger.next_run /\ trigger.instances # {}) =>
               trigger'.instances = trigger.instances /\ trigger'.wake.skipped
         /\ (trigger'.next_run # trigger.next_run /\ trigger.instances = {}) =>
               /\ Cardinality(trigger'.instances) = 1
               /\ trigger'.wake.submitted = 1]_vars

\* After a firing was skipped during a running tick, a late wake found two
\* run times due and started one tick for them.
C32_Witness ==
    /\ trigger.pc = "started"
    /\ trigger.skips >= 1
    /\ trigger.wake.due = 2
    /\ trigger.wake.submitted = 1
    /\ \E i \in trigger.instances : i.running

\* C33: when the video gave a transcript, the generation call of send_now for
\* that session takes the transcript as its text; the video's title does not
\* turn the call into a title-only one.
C33_TranscriptIsGenerationInput ==
    (flow.pc # "idle" /\ flow.path = "now" /\ flow.note = "transcript") =>
        /\ flow.call.text = "transcript"
        /\ ~flow.call.title_only

\* C34: for a stored job the poller issues the generation call that send_now
\* would issue for the same captured fields (note, title, file content,
\* beyond-scope flag, difficulty): the same branch with the same arguments.
C34_TickCallsAsSendNow ==
    (flow.pc # "idle" /\ flow.path = "tick") =>
        LET job == flow.job[1] IN
          flow.call = GenCallNow(job.note, job.title, job.file_content, "", "",
                                 job.allow_beyond, job.difficulty)

\* C35: On either path items are sent strictly in generated order, and when the
\* send of item k raises, no item after k is sent and the items before k stay
\* delivered; the run ends without success: the scheduled job becomes failed
\* and never sent, and the immediate run increments no counter, persists no
\* Quiz and removes the user's pending session.
C35_SendFailureStopsRun ==
    [][ /\ \A p \in Pollers :
            LET j == CurJob(p)
                k == Len(jobHist[j].sends) IN
            /\ (pollers[p].pc = "send" /\ jobHist'[j].sends # jobHist[j].sends) =>
                   /\ jobHist'[j].sends = Append(jobHist[j].sends,
                                                 [by |-> p, item |-> pollers[p].questions[k + 1]])
                   /\ pollers'[p].questions = pollers[p].questions
            /\ (pollers[p].pc = "except" /\ pollers'[p] # pollers[p]) =>
                   /\ schedules'[j].status = "failed"
                   /\ jobHist'[j].sends = jobHist[j].sends
        /\ \A j \in 1..Len(schedules) :
            schedules[j].status = "failed" =>
                   /\ schedules'[j].status = "failed"
                   /\ jobHist'[j].sends = jobHist[j].sends
        /\ \A t \in Threads :
            LET k == Len(runs[t].sent) IN
            /\ (runs[t].pc = "send" /\ runs'[t].pc = "send" /\ runs'[t] # runs[t]) =>
                   /\ runs'[t].sent = Append(runs[t].sent, runs[t].questions[k + 1])
                   /\ runs'[t].questions = runs[t].questions
            /\ (runs[t].pc = "send" /\ runs'[t].pc = "idle" /\ lastExit'.how = "raise") =>
                   /\ lastExit'.sent = k
                   /\ runs[t].sent = SubSeq(runs[t].questions, 1, k)
                   /\ users' = users
                   /\ quizzes' = quizzes
                   /\ pending_notes'[runs[t].user] = NoSession
      ]_vars

\* Both paths have lost the send of their second item: the job is failed with
\* one send out of two generated items, and the latest send_now run ended by
\* an exception after one send, with no Quiz stored and the session gone.
C35_Witness ==
    /\ schedules[1].status = "failed"
    /\ jobHist[1].genLen = 2
    /\ Len(jobHist[1].sends) = 1
    /\ lastExit = [how |-> "raise", sent |-> 1]
    /\ quizzes = <<>>
    /\ pending_notes[DeliverUser] = NoSession

\* The number of send events of a run.
SendCount(events) == Len(SelectSeq(events, LAMBDA e : e.kind = "send"))

\* C36: On the note, title and media paths the number of items delivered and
\* persisted never exceeds the requested question count, whatever number of
\* valid elements the AI service returns.
C36_NoMoreThanRequested ==
    flow.pc \in {"sending", "end"} /\ flow.call.branch \in {"note", "title", "media"} =>
        /\ SendCount(flow.events) <= flow.num_questions
        /\ flow.persisted <= flow.num_questions

\* C37: the question count used by a generation run never exceeds the
\* per-request cap of the tier the user holds at the time of the run, for
\* every sequence of set_questions_per_note, set or remove API key, premium
\* grant and sendnow or schedule events.
C37_RunWithinTierCap ==
    settings.pc # "idle" /\ settings.run.path # "none" =>
        settings.run.num <= QuestionCap(TierByOrder(settings.run.premium, settings.run.key))

\* Every job of the store whose scheduled_at has passed is sent or failed.
AllDueSettled ==
    \A j \in 1..Len(schedules) :
        schedules[j].scheduled_at <= now => schedules[j].status \in {"sent", "failed"}

C39_ReferrerSetOnce ==
    [][referrals.pc # "idle" =>
        LET docs == referrals.docs
            docs2 == referrals'.docs IN
        /\ \A u \in RefIds :
              /\ docs[u].invited_by # 0 => docs2[u].invited_by = docs[u].invited_by
              /\ docs2[u].invited_by # u
        /\ \A c \in Callers :
              (referrals.calls[c].pc # "done" /\ referrals'.calls[c].pc = "done") =>
                 IF referrals'.calls[c].result
                 THEN \E r \in RefIds :
                        /\ docs2[r].referral_count = docs[r].referral_count + 1
                        /\ \A o \in RefIds \ {r} :
                              docs2[o].referral_count = docs[o].referral_count
                 ELSE docs2 = docs /\ ~referrals.calls[c].wrote
    ]_vars

\* C40: a battle's status only moves from waiting to completed, and its
\* opponent is recorded at most once: after the battle is completed no later
\* finish by another user who opened the link while it was waiting changes
\* opponent_id, opponent_score or opponent_total.
C40_OpponentRecordedOnce ==
    [][battle.pc # "idle" =>
        /\ battle'.doc.status # battle.doc.status =>
              battle.doc.status = "waiting" /\ battle'.doc.status = "completed"
        /\ battle.doc.status = "completed" =>
              /\ battle'.doc.opponent_id = battle.doc.opponent_id
              /\ battle'.doc.opponent_score = battle.doc.opponent_score
              /\ battle'.doc.opponent_total = battle.doc.opponent_total
    ]_vars

====
